---- MODULE Spec2Model ----
(***************************************************************************)
(* Model of the triff storage core: core.Database (a map from key to       *)
(* *TriffValue guarded by one sync.RWMutex), the thin StringCommands.Set   *)
(* layer that builds the values, and the wall clock the TTL logic reads.   *)
(* Every client goroutine is a task that runs one operation at a time: it  *)
(* acquires the lock, runs the body of the operation while holding it and  *)
(* releases the lock when the operation returns (the deferred unlock).     *)
(* Above the core sit StringCommands and its two front ends, the TCP line  *)
(* protocol and the HTTP/JSON API; they have specifications of their own   *)
(* (SpecCmd, ...) over the same variables and the same Database bodies.     *)
(* storage.MemoryEngine, the store with a snapshot file, has the same map  *)
(* and lock discipline; its load, autosave routine and Stop are SpecSave.  *)
(* Goroutines waiting for the lock, and the order in which sync.RWMutex    *)
(* serves them, appear in SpecFair (clients against the background tasks)  *)
(* and SpecNested (methods that take the lock again while holding it);     *)
(* SpecStop is the stop channel and SpecIncr the unlocked read-then-write  *)
(* of IncrBy.                                                              *)
(***************************************************************************)
EXTENDS Integers, FiniteSets, Sequences, TLC

\* ------------------------------------------------------------ bounds -----
\* Last second of wall-clock time the model explores.
MaxTime == 2
\* Width in bits of the machine integers (int64 in the code).
IntBits == 5
\* Longest string a client stores.
MaxLen == 3

\* ------------------------------------------------------ input universes --
Tasks == {"t1", "t2"}
KeySet == {"k1", "k2"}
Strings == {"a", "b"}
\* time.Now().Unix() when the process starts (a positive Unix time).
StartTime == 1
\* seconds of SET ... EX (ttl) and of EXPIRE: negative, zero and positive.
SecondsInputs == {-1, 0, 1}
\* patterns of Keys: the wildcard and literal patterns.
Patterns == {"*"} \cup KeySet

\* The zero value of time.Time, which a freshly built TriffValue carries in
\* CreatedAt and UpdatedAt.
ZeroTime == 0

VARIABLES
    Data,     \* db.Data: map[string]*TriffValue, a function on the present keys
    mu,       \* db.mu: the RWMutex, its writer and the set of its readers
    now,      \* time.Now().Unix()
    pc,       \* per task: "idle", "held" (lock held, body to run), "done"
    op,       \* per task: the operation it runs and its arguments
    ret,      \* per task: what the body of the operation returns
    crashed,  \* the Go runtime has thrown a fatal concurrent-map error
    request,  \* the command a front end (or an API caller) served last
    response, \* what it answered
    bulk,     \* per task: the MSet or MGet it is in the middle of
    file,     \* the snapshot file at the engine's persistencePath
    engine    \* storage.MemoryEngine: its autosave routine, Stop and savers

vars == <<Data, mu, now, pc, op, ret, crashed, request, response, bulk, file, engine>>

\* --------------------------------------------------------------- values --
NoTask == "none"

\* make(map[string]*TriffValue)
EmptyMap == [k \in {} |-> 0]

\* what a task holds before it has run anything
NoOp == [name |-> "none", key |-> "", value |-> <<>>, seconds |-> 0]
NoRet == [ok |-> FALSE, num |-> 0, value |-> <<>>, keys |-> {}]

\* delete(m, key)
MapDelete(m, key) == [k \in (DOMAIN m) \ {key} |-> m[k]]

\* m[key] = value
MapStore(m, key, value) ==
    [k \in (DOMAIN m) \cup {key} |-> IF k = key THEN value ELSE m[k]]

\* StringCommands.Set builds the value before it calls db.Set: a positive
\* ttl becomes the absolute deadline time.Now().Unix() + ttl, any other ttl
\* is stored as it is.
StringValue(s, ttl, t) ==
    [Type |-> "STRING", Data |-> s,
     TTL |-> IF ttl > 0 THEN t + ttl ELSE ttl,
     CreatedAt |-> ZeroTime, UpdatedAt |-> ZeroTime]

\* ------------------------------------------------ the operations' bodies -
\* The expiry test of Database.Get.
GetExpired(value, t) == value.TTL > 0 /\ t > value.TTL

\* Database.Get: (value, found) and the map it leaves.
GetResult(m, key, t) ==
    IF key \notin DOMAIN m THEN [NoRet EXCEPT !.ok = FALSE]
    ELSE IF GetExpired(m[key], t) THEN [NoRet EXCEPT !.ok = FALSE]
    ELSE [NoRet EXCEPT !.ok = TRUE, !.value = <<m[key]>>]

\* Get without the lazy eviction.
GetMapKeep(m, key, t) == m

GetMap(m, key, t) ==
    IF key \in DOMAIN m /\ GetExpired(m[key], t) THEN MapDelete(m, key) ELSE m

\* Database.Set: stamps UpdatedAt always and CreatedAt only when the key is
\* new, then stores the value it was given.
SetMap(m, key, value, t) ==
    LET stamped == [value EXCEPT !.UpdatedAt = t,
                                 !.CreatedAt = IF key \notin DOMAIN m
                                               THEN t ELSE value.CreatedAt]
    IN  MapStore(m, key, stamped)

\* A Delete that reports success whatever it found.
DeleteResultAlways(m, key) == TRUE

\* Database.Delete
DeleteResult(m, key) == key \in DOMAIN m
DeleteMap(m, key) == IF key \in DOMAIN m THEN MapDelete(m, key) ELSE m

\* Database.Exists
ExistsResult(m, key) == key \in DOMAIN m

\* what a glob would match beyond the key equal to the pattern, on the keys
\* and patterns of GlobKeys and GlobPatterns below
GlobMatches == {<<"a*", "abc">>, <<"a*", "ab">>, <<"ab*", "abc">>, <<"ab*", "ab">>}

\* A Keys that matches globs.
KeysResultGlob(m, pattern) ==
    {k \in DOMAIN m : pattern = "*" \/ k = pattern \/ <<pattern, k>> \in GlobMatches}

\* Database.Keys
KeysResult(m, pattern) == {k \in DOMAIN m : pattern = "*" \/ k = pattern}

\* A flush that leaves a key behind.
FlushAllMapPartial(m) ==
    IF DOMAIN m = {} THEN m
    ELSE [k \in {CHOOSE x \in DOMAIN m : TRUE} |-> m[k]]

\* Database.FlushAll: db.Data is replaced by a new empty map.
FlushAllMap(m) == EmptyMap

\* Database.Size
SizeResult(m) == Cardinality(DOMAIN m)

\* A SetTTL that stores the relative seconds instead of the deadline.
SetTTLMapRelative(m, key, seconds, t) ==
    IF key \in DOMAIN m THEN [m EXCEPT ![key].TTL = seconds] ELSE m

\* Database.SetTTL
SetTTLResult(m, key) == key \in DOMAIN m
SetTTLMap(m, key, seconds, t) ==
    IF key \in DOMAIN m THEN [m EXCEPT ![key].TTL = t + seconds] ELSE m

\* A GetTTL that reports a remaining time of 0 instead of -2.
GetTTLResultZero(m, key, t) ==
    IF key \in DOMAIN m
    THEN IF m[key].TTL = 0 THEN -1
         ELSE LET remaining == m[key].TTL - t
              IN  IF remaining < 0 THEN -2 ELSE remaining
    ELSE -2

\* Database.GetTTL
GetTTLResult(m, key, t) ==
    IF key \in DOMAIN m
    THEN IF m[key].TTL = 0 THEN -1
         ELSE LET remaining == m[key].TTL - t
              IN  IF remaining <= 0 THEN -2 ELSE remaining
    ELSE -2

\* A sweep that takes "no deadline" (TTL = 0) for a deadline.
SweepExpiredZero(value, t) == t > value.TTL

\* A sweep that already removes a key at its deadline.
SweepExpiredAt(value, t) == value.TTL > 0 /\ t >= value.TTL

\* The expiry test of Database.CleanupExpired.
SweepExpired(value, t) == value.TTL > 0 /\ t > value.TTL

\* Database.CleanupExpired
CleanupMap(m, t) ==
    [k \in {x \in DOMAIN m : ~SweepExpired(m[x], t)} |-> m[k]]

\* ======================= the command layer ================================
\* StringCommands and the two front ends that reach it, the TCP line
\* protocol and the HTTP/JSON API. At this layer a Go string is a sequence
\* of characters, so that lengths, concatenation, substrings and the
\* conversions between integers and their decimal strings are computed and
\* not assumed. Every Database operation a command calls is one critical
\* section of the lock modelled above.

\* int64, scaled down to IntBits bits.
Int64Min == -(2 ^ (IntBits - 1))
Int64Max == (2 ^ (IntBits - 1)) - 1

\* int64 addition wraps around (two's complement).
WrapInt64NoWrap(x) == x

WrapInt64(x) == ((x - Int64Min) % (2 ^ IntBits)) + Int64Min

DigitChars == <<"0", "1", "2", "3", "4", "5", "6", "7", "8", "9">>
IsDigit(c) == \E i \in 1 .. Len(DigitChars) : DigitChars[i] = c
DigitValue(c) == (CHOOSE i \in 1 .. Len(DigitChars) : DigitChars[i] = c) - 1

\* the value of a non-empty string of decimal digits
RECURSIVE DigitsValue(_)
DigitsValue(s) ==
    IF Len(s) = 0 THEN 0
    ELSE DigitsValue(SubSeq(s, 1, Len(s) - 1)) * 10 + DigitValue(s[Len(s)])

\* strconv.ParseInt(s, 10, 64): an optional sign, then one or more decimal
\* digits and nothing else; a value outside int64 is an error as well.
ParseInt(s) ==
    LET signed == Len(s) > 0 /\ s[1] \in {"+", "-"}
        digits == IF signed THEN Tail(s) ELSE s
        value  == IF Len(s) > 0 /\ s[1] = "-" THEN -DigitsValue(digits)
                  ELSE DigitsValue(digits)
    IN  IF Len(digits) = 0 \/ \E i \in 1 .. Len(digits) : ~IsDigit(digits[i])
        THEN [ok |-> FALSE, val |-> 0]
        ELSE IF value < Int64Min \/ value > Int64Max
        THEN [ok |-> FALSE, val |-> 0]
        ELSE [ok |-> TRUE, val |-> value]

\* the decimal digits of a natural number
RECURSIVE FormatUint(_)
FormatUint(n) ==
    IF n < 10 THEN <<DigitChars[n + 1]>>
    ELSE FormatUint(n \div 10) \o <<DigitChars[(n % 10) + 1]>>

\* A formatting that loses the sign.
FormatIntUnsigned(n) == IF n < 0 THEN FormatUint(-n) ELSE FormatUint(n)

\* fmt.Sprintf("%d", n)
FormatInt(n) == IF n < 0 THEN <<"-">> \o FormatUint(-n) ELSE FormatUint(n)

\* strings.ToUpper on the letters the inputs use
UpperChar(c) == IF c = "e" THEN "E" ELSE IF c = "x" THEN "X" ELSE c
ToUpper(s) == [i \in 1 .. Len(s) |-> UpperChar(s[i])]

\* a TriffValue of a type other than STRING, as a caller of the Go API
\* (db.Set) can store it
HashValue ==
    [Type |-> "HASH", Data |-> <<>>, TTL |-> 0,
     CreatedAt |-> ZeroTime, UpdatedAt |-> ZeroTime]

\* core.Response; Data is nil, a string or an integer
NilData == [nil |-> TRUE, str |-> <<>>, num |-> 0]
StrData(s) == [nil |-> FALSE, str |-> s, num |-> 0]
IntData(n) == [nil |-> FALSE, str |-> <<>>, num |-> n]
Response(success, data, error, type) ==
    [Success |-> success, Data |-> data, Error |-> error, Type |-> type]

\* what a command leaves behind: the map and its *core.Response
Outcome(m, r) == [db |-> m, resp |-> r]

\* a payload that is not a Go string (a map, a slice, a number)
NonString == "{}"
\* the type assertion value.Data.(string) succeeds on payload d
IsGoString(d) == \A i \in 1 .. Len(d) : d[i] # NonString

\* A Set that stores its value boxed in a slice under the type STRING.
ScSetBoxed(m, key, value, ttl, t) ==
    Outcome(SetMap(m, key, [StringValue(value, ttl, t) EXCEPT !.Data = <<NonString>>], t),
            Response(TRUE, StrData(<<"O", "K">>), "", "string"))

\* StringCommands.Set
ScSet(m, key, value, ttl, t) ==
    Outcome(SetMap(m, key, StringValue(value, ttl, t), t),
            Response(TRUE, StrData(<<"O", "K">>), "", "string"))

\* StringCommands.Get
ScGet(m, key, t) ==
    LET r == GetResult(m, key, t)
        resp == IF ~r.ok THEN Response(FALSE, NilData, "", "string")
                ELSE IF r.value[1].Type # "STRING"
                THEN Response(FALSE, NilData, "value is not a string", "string")
                ELSE Response(TRUE, StrData(r.value[1].Data), "", "string")
    IN  Outcome(GetMap(m, key, t), resp)

\* newValue of StringCommands.Append, from what db.Get returned
AppendValue(r, value) ==
    IF r.ok /\ r.value[1].Type = "STRING" THEN r.value[1].Data \o value
    ELSE value

\* An Append that keeps the deadline of the value it extends.
ScAppendKeepsTTL(m, key, value, t) ==
    LET r == GetResult(m, key, t)
        newValue == AppendValue(r, value)
        fresh == StringValue(newValue, 0, t)
        kept == IF r.ok THEN [fresh EXCEPT !.TTL = r.value[1].TTL] ELSE fresh
    IN  Outcome(SetMap(GetMap(m, key, t), key, kept, t),
                Response(TRUE, IntData(Len(newValue)), "", "integer"))

\* An Append that forgets the old string.
ScAppendFresh(m, key, value, t) ==
    Outcome(SetMap(GetMap(m, key, t), key, StringValue(value, 0, t), t),
            Response(TRUE, IntData(Len(value)), "", "integer"))

\* StringCommands.Append: db.Get, then db.Set of a freshly built value
ScAppend(m, key, value, t) ==
    LET newValue == AppendValue(GetResult(m, key, t), value)
    IN  Outcome(SetMap(GetMap(m, key, t), key, StringValue(newValue, 0, t), t),
                Response(TRUE, IntData(Len(newValue)), "", "integer"))

\* StringCommands.Strlen
ScStrlen(m, key, t) ==
    LET r == GetResult(m, key, t)
        resp == IF ~r.ok THEN Response(TRUE, IntData(0), "", "integer")
                ELSE IF r.value[1].Type # "STRING"
                THEN Response(FALSE, NilData, "value is not a string", "string")
                ELSE Response(TRUE, IntData(Len(r.value[1].Data)), "", "integer")
    IN  Outcome(GetMap(m, key, t), resp)

\* An IncrBy that writes before it has validated the old value.
ScIncrByUnchecked(m, key, increment, t) ==
    LET r == GetResult(m, key, t)
        parsed == IF r.ok /\ r.value[1].Type = "STRING"
                  THEN ParseInt(r.value[1].Data) ELSE [ok |-> TRUE, val |-> 0]
        newValue == WrapInt64(parsed.val + increment)
    IN  Outcome(SetMap(GetMap(m, key, t), key,
                       StringValue(FormatInt(newValue), 0, t), t),
                Response(TRUE, IntData(newValue), "", "integer"))

\* An IncrBy that reports an error when the sum leaves the int64 range.
ScIncrByChecked(m, key, increment, t) ==
    LET r == GetResult(m, key, t)
        m1 == GetMap(m, key, t)
        parsed == IF r.ok /\ r.value[1].Type = "STRING"
                  THEN ParseInt(r.value[1].Data) ELSE [ok |-> TRUE, val |-> 0]
        sum == parsed.val + increment
    IN  IF r.ok /\ r.value[1].Type # "STRING"
        THEN Outcome(m1, Response(FALSE, NilData, "value is not a string", "string"))
        ELSE IF r.ok /\ ~parsed.ok
        THEN Outcome(m1, Response(FALSE, NilData,
                                  "value is not a valid integer", "string"))
        ELSE IF sum < Int64Min \/ sum > Int64Max
        THEN Outcome(m1, Response(FALSE, NilData,
                                  "increment or decrement would overflow", "string"))
        ELSE Outcome(SetMap(m1, key, StringValue(FormatInt(sum), 0, t), t),
                     Response(TRUE, IntData(sum), "", "integer"))

\* StringCommands.IncrBy: db.Get, the type and integer checks, then db.Set
\* of a freshly built value holding the decimal string of the sum
ScIncrBy(m, key, increment, t) ==
    LET r == GetResult(m, key, t)
        m1 == GetMap(m, key, t)
        parsed == IF r.ok /\ r.value[1].Type = "STRING"
                  THEN ParseInt(r.value[1].Data) ELSE [ok |-> TRUE, val |-> 0]
        newValue == WrapInt64(parsed.val + increment)
    IN  IF r.ok /\ r.value[1].Type # "STRING"
        THEN Outcome(m1, Response(FALSE, NilData, "value is not a string", "string"))
        ELSE IF r.ok /\ ~parsed.ok
        THEN Outcome(m1, Response(FALSE, NilData,
                                  "value is not a valid integer", "string"))
        ELSE Outcome(SetMap(m1, key, StringValue(FormatInt(newValue), 0, t), t),
                     Response(TRUE, IntData(newValue), "", "integer"))

\* StringCommands.Incr and Decr
ScIncr(m, key, t) == ScIncrBy(m, key, 1, t)
ScDecr(m, key, t) == ScIncrBy(m, key, -1, t)

\* A GetRange that does not clamp end to the last index.
RangeEndUnclamped(end, length) == end

\* GetRange's clamping of end
RangeEnd(end, length) == IF end >= length THEN length - 1 ELSE end

\* the substring StringCommands.GetRange slices out of str: str[start:end+1]
\* after the negative indices are offset by the length and both are clamped.
\* A slice outside the string is a run-time panic.
RangeOf(str, start0, end0) ==
    LET length == Len(str)
        start1 == IF start0 < 0 THEN length + start0 ELSE start0
        end1   == IF end0 < 0 THEN length + end0 ELSE end0
        start  == IF start1 < 0 THEN 0 ELSE start1
        end    == RangeEnd(end1, length)
    IN  IF start > end THEN [panic |-> FALSE, str |-> <<>>]
        ELSE IF start < 0 \/ end + 1 > length
        THEN [panic |-> TRUE, str |-> <<>>]
        ELSE [panic |-> FALSE, str |-> SubSeq(str, start + 1, end + 1)]

\* StringCommands.GetRange
ScGetRange(m, key, start, end, t) ==
    LET r == GetResult(m, key, t)
        resp == IF ~r.ok THEN Response(TRUE, StrData(<<>>), "", "string")
                ELSE IF r.value[1].Type # "STRING"
                THEN Response(FALSE, NilData, "value is not a string", "string")
                ELSE LET sub == RangeOf(r.value[1].Data, start, end)
                     IN  IF sub.panic
                         THEN Response(FALSE, NilData, "panic", "panic")
                         ELSE Response(TRUE, StrData(sub.str), "", "string")
    IN  Outcome(GetMap(m, key, t), resp)

\* ------------------------------------------------- the TCP front end -----
\* What a front end answers: the leading marker of the TCP reply ("+", "-ERR",
\* ":", "$", "$-1", "*") or the HTTP status, the data it carries, the message
\* text and, for KEYS, the keys.
Reply(code, data, msg) == [code |-> code, data |-> data, msg |-> msg, keys |-> {}]
NoReply == Reply("", NilData, "")

\* a front end's result: the map it leaves and its answer
Served(m, reply) == [db |-> m, reply |-> reply]

\* the DEL loop: db.Delete on every argument, counting the keys removed
RECURSIVE DelAll(_, _)
DelAll(m, args) ==
    IF Len(args) = 0 THEN [db |-> m, count |-> 0]
    ELSE LET rest == DelAll(DeleteMap(m, args[1]), Tail(args))
         IN  [db |-> rest.db,
              count |-> rest.count + (IF DeleteResult(m, args[1]) THEN 1 ELSE 0)]

\* ":%d" of an integer response, "-ERR %s" of a failed one
IntegerReply(o) ==
    IF o.resp.Success THEN Served(o.db, Reply(":", IntData(o.resp.Data.num), ""))
    ELSE Served(o.db, Reply("-ERR", NilData, o.resp.Error))

WrongArgs(m) == Served(m, Reply("-ERR", NilData, "wrong number of arguments"))

\* the arity test of SET
TcpSetArity(args) == Len(args) >= 2

\* case "SET"
TcpSet(m, args, t) ==
    IF ~TcpSetArity(args) THEN WrongArgs(m)
    ELSE LET ex == Len(args) >= 4 /\ ToUpper(args[3]) = <<"E", "X">>
             parsed == IF ex THEN ParseInt(args[4]) ELSE [ok |-> TRUE, val |-> 0]
         IN  IF ~parsed.ok
             THEN Served(m, Reply("-ERR", NilData, "invalid expire time"))
             ELSE Served(ScSet(m, args[1], args[2], parsed.val, t).db,
                         Reply("+", NilData, "OK"))

\* case "GET"
TcpGet(m, args, t) ==
    IF Len(args) # 1 THEN WrongArgs(m)
    ELSE LET o == ScGet(m, args[1], t)
         IN  IF o.resp.Success /\ ~o.resp.Data.nil
             THEN Served(o.db, Reply("$", o.resp.Data, ""))
             ELSE Served(o.db, Reply("$-1", NilData, ""))

\* case "EXPIRE"
TcpExpire(m, args, t) ==
    IF Len(args) # 2 THEN WrongArgs(m)
    ELSE LET parsed == ParseInt(args[2])
         IN  IF ~parsed.ok
             THEN Served(m, Reply("-ERR", NilData, "invalid expire time"))
             ELSE Served(SetTTLMap(m, args[1], parsed.val, t),
                         Reply(":", IntData(IF SetTTLResult(m, args[1])
                                            THEN 1 ELSE 0), ""))

\* TCPServer.processCommand on a line split into its command name (already
\* upper-cased) and its arguments
processCommand(m, name, args, t) ==
    CASE name = "PING" -> Served(m, Reply("+", NilData, "PONG"))
      [] name = "SET" -> TcpSet(m, args, t)
      [] name = "GET" -> TcpGet(m, args, t)
      [] name = "DEL" ->
            IF Len(args) = 0 THEN WrongArgs(m)
            ELSE Served(DelAll(m, args).db,
                        Reply(":", IntData(DelAll(m, args).count), ""))
      [] name = "EXISTS" ->
            IF Len(args) # 1 THEN WrongArgs(m)
            ELSE Served(m, Reply(":", IntData(IF ExistsResult(m, args[1])
                                              THEN 1 ELSE 0), ""))
      [] name = "KEYS" ->
            LET pattern == IF Len(args) > 0 THEN args[1] ELSE <<"*">>
                keys == {k \in DOMAIN m : pattern = <<"*">> \/ k = pattern}
            IN  Served(m, [Reply("*", IntData(Cardinality(keys)), "")
                               EXCEPT !.keys = keys])
      [] name = "FLUSHALL" -> Served(FlushAllMap(m), Reply("+", NilData, "OK"))
      [] name = "INFO" -> Served(m, Reply("$", IntData(SizeResult(m)), "info"))
      [] name = "DBSIZE" -> Served(m, Reply(":", IntData(SizeResult(m)), ""))
      [] name = "TTL" ->
            IF Len(args) # 1 THEN WrongArgs(m)
            ELSE Served(m, Reply(":", IntData(GetTTLResult(m, args[1], t)), ""))
      [] name = "EXPIRE" -> TcpExpire(m, args, t)
      [] name = "INCR" ->
            IF Len(args) # 1 THEN WrongArgs(m)
            ELSE IntegerReply(ScIncr(m, args[1], t))
      [] name = "DECR" ->
            IF Len(args) # 1 THEN WrongArgs(m)
            ELSE IntegerReply(ScDecr(m, args[1], t))
      [] name = "APPEND" ->
            IF Len(args) # 2 THEN WrongArgs(m)
            ELSE IntegerReply(ScAppend(m, args[1], args[2], t))
      [] name = "STRLEN" ->
            IF Len(args) # 1 THEN WrongArgs(m)
            ELSE IntegerReply(ScStrlen(m, args[1], t))
      [] OTHER -> Served(m, Reply("-ERR", NilData, "unknown command"))

\* ------------------------------------------------ the HTTP front end -----
\* writeJSON(w, 200, ...) carrying the response's Data, writeError otherwise
JsonReply(o, failure) ==
    IF o.resp.Success THEN Served(o.db, Reply("200", o.resp.Data, ""))
    ELSE Served(o.db, Reply(failure, NilData, o.resp.Error))

\* The handlers of /api/v1/string/{key}...; args holds the key and the
\* payload's value, nums its ttl or by, bad marks a body that is not JSON.
HttpString(m, route, args, nums, bad, t) ==
    CASE route = "string.get" ->
            LET o == ScGet(m, args[1], t)
            IN  IF o.resp.Success THEN Served(o.db, Reply("200", o.resp.Data, ""))
                ELSE Served(o.db, Reply("404", NilData,
                                        "key not found or not a string"))
      [] route = "string.set" ->
            IF bad THEN Served(m, Reply("400", NilData, "invalid JSON payload"))
            ELSE Served(ScSet(m, args[1], args[2], nums[1], t).db,
                        Reply("200", NilData, "value set successfully"))
      [] route = "string.append" ->
            IF bad THEN Served(m, Reply("400", NilData, "invalid JSON payload"))
            ELSE JsonReply(ScAppend(m, args[1], args[2], t), "500")
      [] route = "string.length" ->
            LET o == ScStrlen(m, args[1], t)
            IN  Served(o.db, Reply("200", o.resp.Data, ""))
      [] route = "string.incr" ->
            LET by == IF bad THEN 0 ELSE nums[1]
            IN  JsonReply(IF by = 0 THEN ScIncr(m, args[1], t)
                          ELSE ScIncrBy(m, args[1], by, t), "400")
      [] route = "string.decr" -> JsonReply(ScDecr(m, args[1], t), "400")

\* ----------------------------------------------------- Go API callers ----
\* Calls a program embedding the store makes without a front end.
ApiServe(m, name, args, nums, t) ==
    LET fromResp(o) == Served(o.db, Reply(IF o.resp.Success THEN "ok" ELSE "fail",
                                          o.resp.Data, o.resp.Error))
    IN  CASE name = "db.Set" ->
                Served(SetMap(m, args[1], HashValue, t), Reply("ok", NilData, ""))
          [] name = "Set" -> fromResp(ScSet(m, args[1], args[2], nums[1], t))
          [] name = "IncrBy" -> fromResp(ScIncrBy(m, args[1], nums[1], t))
          [] name = "GetRange" ->
                fromResp(ScGetRange(m, args[1], nums[1], nums[2], t))

\* ------------------------------------------------------------ inputs -----
CmdKeys == {<<"k">>}
TcpValues == {<<"1", "0">>, <<"a">>}
AppendValues == {<<"1">>}
Deltas == {-2, 3}
RangePairs == {<<0, -1>>, <<1, 1>>}

Request(via, name, args, nums, bad) ==
    [via |-> via, name |-> name, args |-> args, nums |-> nums, bad |-> bad]
NoRequest == Request("none", "", <<>>, <<>>, FALSE)

TcpLine(name, args) == Request("tcp", name, args, <<>>, FALSE)

\* the well-formed lines of the string commands, and of EXPIRE and DEL
TcpStringLines ==
    {TcpLine(n, <<k>>) : n \in {"GET", "DEL", "INCR", "DECR", "STRLEN"},
                         k \in CmdKeys}
    \cup {TcpLine("SET", <<k, v>>) : k \in CmdKeys, v \in TcpValues}
    \cup {TcpLine("SET", <<k, v, <<"E", "X">>, <<"1">>>>) :
              k \in CmdKeys, v \in TcpValues}
    \cup {TcpLine("EXPIRE", <<k, <<"-", "1">>>>) : k \in CmdKeys}
    \cup {TcpLine("APPEND", <<k, v>>) : k \in CmdKeys, v \in AppendValues}

\* the well-formed lines of all the documented commands
TcpGoodLines ==
    TcpStringLines
    \cup {TcpLine(n, <<>>) : n \in {"PING", "FLUSHALL", "DBSIZE", "INFO", "KEYS"}}
    \cup {TcpLine(n, <<k>>) : n \in {"EXISTS", "TTL", "KEYS"}, k \in CmdKeys}

\* lines with too few or too many arguments, an unknown command name, or
\* text where an integer is required
TcpBadLines ==
    {TcpLine(n, <<>>) : n \in {"SET", "GET", "DEL", "EXISTS", "TTL", "EXPIRE",
                               "INCR", "DECR", "APPEND", "STRLEN", "BOGUS"}}
    \cup {TcpLine(n, <<k, k>>) : n \in {"GET", "EXISTS", "TTL", "INCR", "DECR",
                                        "STRLEN", "KEYS"}, k \in CmdKeys}
    \cup {TcpLine(n, <<k>>) : n \in {"SET", "EXPIRE", "APPEND", "FLUSHALL",
                                     "DBSIZE", "PING", "BOGUS"}, k \in CmdKeys}
    \cup {TcpLine("SET", <<k, <<"a">>, x>>) :
              k \in CmdKeys, x \in {<<"E", "X">>, <<"a">>}}
    \cup {TcpLine("SET", <<k, <<"a">>, <<"e", "x">>, <<"x">>>>) : k \in CmdKeys}
    \cup {TcpLine("SET", <<k, <<"a">>, <<"E", "X">>, <<"1">>, <<"a">>>>) :
              k \in CmdKeys}
    \cup {TcpLine("EXPIRE", <<k, <<"x">>>>) : k \in CmdKeys}
    \cup {TcpLine(n, <<k, <<"a">>, <<"a">>>>) :
              n \in {"EXPIRE", "APPEND"}, k \in CmdKeys}

TcpLines == TcpGoodLines \cup TcpBadLines

HttpRequests ==
    {Request("http", r, <<k>>, <<>>, FALSE) :
         r \in {"string.get", "string.length", "string.decr"}, k \in CmdKeys}
    \cup {Request("http", "string.set", <<k, v>>, <<ttl>>, FALSE) :
              k \in CmdKeys, v \in TcpValues \cup {<<>>}, ttl \in {0, 1}}
    \cup {Request("http", "string.append", <<k, v>>, <<>>, FALSE) :
              k \in CmdKeys, v \in AppendValues \cup {<<>>}}
    \cup {Request("http", "string.incr", <<k>>, <<by>>, FALSE) :
              k \in CmdKeys, by \in {0} \cup Deltas}
    \cup {Request("http", r, <<k, <<>>>>, <<0>>, TRUE) :
              r \in {"string.set", "string.append", "string.incr"}, k \in CmdKeys}

ApiCalls ==
    {Request("api", "db.Set", <<k>>, <<>>, FALSE) : k \in CmdKeys}
    \cup {Request("api", "IncrBy", <<k>>, <<d>>, FALSE) :
              k \in CmdKeys, d \in Deltas}

\* what serving request r on map m at time t leaves and answers
Serve(m, r, t) ==
    CASE r.via = "tcp" -> processCommand(m, r.name, r.args, t)
      [] r.via = "http" -> HttpString(m, r.name, r.args, r.nums, r.bad, t)
      [] r.via = "api" -> ApiServe(m, r.name, r.args, r.nums, t)

\* the stored strings stay within MaxLen characters
Fits(m) == \A k \in DOMAIN m : Len(m[k].Data) <= MaxLen


\* a task that is in no MSet or MGet
NoBulk == [name |-> "none", kv |-> EmptyMap, todo |-> {}, keys |-> <<>>,
           results |-> <<>>]

\* ======================= persistence ======================================
\* storage.MemoryEngine keeps a map of its own under a lock of its own, with
\* the same Get, Set and Delete as core.Database, and adds a snapshot file:
\* loadFromDisk at construction, SaveToDisk from the autosave routine and
\* from Stop. In the specifications of this part Data is me.data and mu is
\* me.mu.

\* the goroutines that call SaveToDisk: the autosave routine and the caller
\* of Stop
Savers == {"auto", "stop"}

\* a byte that is not valid UTF-8 (a Go string may hold any bytes) and the
\* replacement rune U+FFFD
BadByte == "xFF"
Replacement == "uFFFD"
\* the payload of a value encoding/json has no encoding for (a channel, a
\* function)
Unsupported == "chan"

\* encoding/json writes a string coerced to valid UTF-8: every invalid byte
\* becomes U+FFFD
JsonString(s) ==
    [i \in 1 .. Len(s) |-> IF s[i] = BadByte THEN Replacement ELSE s[i]]

\* core.DataType is an int: STRING = iota, HASH, LIST, SET, ZSET
DataTypes == <<"STRING", "HASH", "LIST", "SET", "ZSET">>
TypeCode(type) == (CHOOSE i \in 1 .. Len(DataTypes) : DataTypes[i] = type) - 1
TypeOfCode(n) == DataTypes[n + 1]

\* a value a caller of MemoryEngine.Set built around a channel
ChanValue == [HashValue EXCEPT !.Data = <<Unsupported>>]

\* the JSON object of one TriffValue, by its json tags
JsonValue(v) ==
    [type |-> TypeCode(v.Type), data |-> JsonString(v.Data), ttl |-> v.TTL,
     created_at |-> v.CreatedAt, updated_at |-> v.UpdatedAt]

\* json.MarshalIndent(dataCopy, "", "  "): the JSON object of the map, or an
\* error when a payload has no encoding
MarshalIndent(m) ==
    IF \E k \in DOMAIN m : \E i \in 1 .. Len(m[k].Data) : m[k].Data[i] = Unsupported
    THEN [ok |-> FALSE, doc |-> EmptyMap]
    ELSE [ok |-> TRUE, doc |-> [k \in DOMAIN m |-> JsonValue(m[k])]]

\* json.Unmarshal(jsonData, &loadedData) of a well-formed document
Unmarshal(doc) ==
    [k \in DOMAIN doc |->
        [Type |-> TypeOfCode(doc[k].type), Data |-> doc[k].data,
         TTL |-> doc[k].ttl, CreatedAt |-> doc[k].created_at,
         UpdatedAt |-> doc[k].updated_at]]

\* The snapshot file: absent, partial (opened with O_TRUNC and not written
\* to its end), malformed (not JSON) or valid with the document it holds.
FileOf(state, doc) == [state |-> state, doc |-> doc]
NoFile == FileOf("absent", EmptyMap)

\* MemoryEngine.loadFromDisk: nothing to load when the file does not exist,
\* an error when it is not JSON, the loaded map otherwise
loadFromDisk(f) ==
    IF f.state = "absent" THEN [err |-> FALSE, data |-> EmptyMap]
    ELSE IF f.state # "valid" THEN [err |-> TRUE, data |-> EmptyMap]
    ELSE [err |-> FALSE, data |-> Unmarshal(f.doc)]

\* What NewMemoryEngine reports to its caller about the load: it returns the
\* engine alone and drops the error of loadFromDisk.
NewMemoryEngineError(load) == FALSE

\* a goroutine that is not inside SaveToDisk; err is what its last call
\* returned
NoSaver == [pc |-> "idle", copy |-> EmptyMap, err |-> FALSE]

\* the engine before NewMemoryEngine has run; path says that
\* persistencePath is not empty
NewEngine ==
    [phase |-> "new", path |-> TRUE, autoSave |-> FALSE, loadErr |-> FALSE,
     ctorErr |-> FALSE, routine |-> "none", stop |-> "none", failed |-> FALSE,
     saver |-> [s \in Savers |-> NoSaver]]

\* ------------------------------------------------------------ requests ---
KeyOps == {"Get", "Delete", "Exists", "GetTTL"}
ReadOps == {"Get", "Exists", "Keys", "Size", "GetTTL"}
WriteOps == {"Set", "Delete", "FlushAll", "SetTTL", "CleanupExpired"}
\* the read operations whose map access the runtime checks against writers
CheckedReads == {"Get", "Exists", "Keys", "GetTTL"}

\* The requests a client goroutine can be making at time t. A goroutine
\* fixes its arguments when it makes the call, which is at time t or before:
\* StringCommands.Set reads the clock and builds its value before db.Set
\* asks for the lock, so the value may have been built at any t0 <= t.
Requests(t) ==
    {[NoOp EXCEPT !.name = n, !.key = k] : n \in KeyOps, k \in KeySet}
    \cup {[NoOp EXCEPT !.name = "Keys", !.key = p] : p \in Patterns}
    \cup {[NoOp EXCEPT !.name = n] : n \in {"FlushAll", "Size", "CleanupExpired"}}
    \cup {[NoOp EXCEPT !.name = "Set", !.key = k,
                       !.value = <<StringValue(s, ttl, t0)>>] :
              k \in KeySet, s \in Strings, ttl \in SecondsInputs,
              t0 \in StartTime .. t}
    \cup {[NoOp EXCEPT !.name = "SetTTL", !.key = k, !.seconds = n] :
              k \in KeySet, n \in SecondsInputs}

\* ---------------------------------------------------------------- Init ---
Init ==
    /\ Data = EmptyMap
    /\ mu = [writer |-> NoTask, readers |-> {}]
    /\ now = StartTime
    /\ pc = [t \in Tasks |-> "idle"]
    /\ op = [t \in Tasks |-> NoOp]
    /\ ret = [t \in Tasks |-> NoRet]
    /\ crashed = FALSE
    /\ request = NoRequest
    /\ response = NoReply
    /\ bulk = [t \in Tasks |-> NoBulk]
    /\ file = NoFile
    /\ engine = NewEngine

\* ------------------------------------------------------------- actions ---
\* A task is a goroutine inside (or outside) the critical section of one
\* operation. A goroutine blocked in RLock/Lock is one whose action below is
\* not enabled yet.

\* db.mu.RLock() of a read operation: granted while no writer holds the lock.
RLock(t) ==
    /\ ~crashed
    /\ pc[t] = "idle"
    /\ mu.writer = NoTask
    /\ \E r \in Requests(now) :
           /\ r.name \in ReadOps
           /\ op' = [op EXCEPT ![t] = r]
    /\ mu' = [mu EXCEPT !.readers = @ \cup {t}]
    /\ pc' = [pc EXCEPT ![t] = "held"]
    /\ UNCHANGED <<Data, now, ret, crashed, request, response, bulk, file, engine>>

\* A Lock that is granted while readers are inside.
LockShared(t) ==
    /\ ~crashed
    /\ pc[t] = "idle"
    /\ mu.writer = NoTask
    /\ \E r \in Requests(now) :
           /\ r.name \in WriteOps
           /\ op' = [op EXCEPT ![t] = r]
    /\ mu' = [mu EXCEPT !.writer = t]
    /\ pc' = [pc EXCEPT ![t] = "held"]
    /\ UNCHANGED <<Data, now, ret, crashed, request, response, bulk, file, engine>>

\* db.mu.Lock() of a mutation: granted while nobody holds the lock.
Lock(t) ==
    /\ ~crashed
    /\ pc[t] = "idle"
    /\ mu.writer = NoTask
    /\ mu.readers = {}
    /\ \E r \in Requests(now) :
           /\ r.name \in WriteOps
           /\ op' = [op EXCEPT ![t] = r]
    /\ mu' = [mu EXCEPT !.writer = t]
    /\ pc' = [pc EXCEPT ![t] = "held"]
    /\ UNCHANGED <<Data, now, ret, crashed, request, response, bulk, file, engine>>

\* defer db.mu.RUnlock() / defer db.mu.Unlock(): the operation returns to
\* its caller and the goroutine is free for the next request.
Unlock(t) ==
    /\ ~crashed
    /\ pc[t] = "done"
    /\ mu' = IF mu.writer = t THEN [mu EXCEPT !.writer = NoTask]
             ELSE [mu EXCEPT !.readers = @ \ {t}]
    /\ pc' = [pc EXCEPT ![t] = "idle"]
    /\ op' = [op EXCEPT ![t] = NoOp]
    /\ ret' = [ret EXCEPT ![t] = NoRet]
    /\ UNCHANGED <<Data, now, crashed, request, response, bulk, file, engine>>

\* The body of operation name is ready to run in task t.
Running(t, name) == ~crashed /\ pc[t] = "held" /\ op[t].name = name

\* The body has run: it leaves map m and returns r.
Finish(t, m, r) ==
    /\ Data' = m
    /\ ret' = [ret EXCEPT ![t] = r]
    /\ pc' = [pc EXCEPT ![t] = "done"]
    /\ UNCHANGED <<mu, now, op, crashed, request, response, bulk, file, engine>>

Get(t) ==
    /\ Running(t, "Get")
    /\ Finish(t, GetMap(Data, op[t].key, now), GetResult(Data, op[t].key, now))

\* Get deletes an expired key while it holds only the read lock. When another
\* reader is inside its own critical section, about to access the map, the
\* delete is a data race on the map: the runtime either lets both accesses
\* through (Get above) or throws "concurrent map read and map write" /
\* "concurrent map writes", which ends the process.
GetRace(t) ==
    /\ Running(t, "Get")
    /\ op[t].key \in DOMAIN Data
    /\ GetExpired(Data[op[t].key], now)
    /\ \E u \in mu.readers \ {t} :
           pc[u] = "held" /\ op[u].name \in CheckedReads
    /\ crashed' = TRUE
    /\ UNCHANGED <<Data, mu, now, pc, op, ret, request, response, bulk, file, engine>>

Set(t) ==
    /\ Running(t, "Set")
    /\ Finish(t, SetMap(Data, op[t].key, op[t].value[1], now),
              [NoRet EXCEPT !.ok = TRUE])

Delete(t) ==
    /\ Running(t, "Delete")
    /\ Finish(t, DeleteMap(Data, op[t].key),
              [NoRet EXCEPT !.ok = DeleteResult(Data, op[t].key)])

\* An Exists that evicts the key when it finds its deadline passed, as Get
\* does.
ExistsEvicts(t) ==
    /\ Running(t, "Exists")
    /\ Finish(t, GetMap(Data, op[t].key, now),
              [NoRet EXCEPT !.ok = ExistsResult(Data, op[t].key)])

Exists(t) ==
    /\ Running(t, "Exists")
    /\ Finish(t, Data, [NoRet EXCEPT !.ok = ExistsResult(Data, op[t].key)])

Keys(t) ==
    /\ Running(t, "Keys")
    /\ Finish(t, Data, [NoRet EXCEPT !.ok = TRUE,
                                     !.keys = KeysResult(Data, op[t].key)])

FlushAll(t) ==
    /\ Running(t, "FlushAll")
    /\ Finish(t, FlushAllMap(Data), [NoRet EXCEPT !.ok = TRUE])

Size(t) ==
    /\ Running(t, "Size")
    /\ Finish(t, Data, [NoRet EXCEPT !.ok = TRUE, !.num = SizeResult(Data)])

SetTTL(t) ==
    /\ Running(t, "SetTTL")
    /\ Finish(t, SetTTLMap(Data, op[t].key, op[t].seconds, now),
              [NoRet EXCEPT !.ok = SetTTLResult(Data, op[t].key)])

GetTTL(t) ==
    /\ Running(t, "GetTTL")
    /\ Finish(t, Data, [NoRet EXCEPT !.ok = TRUE,
                                     !.num = GetTTLResult(Data, op[t].key, now)])

CleanupExpired(t) ==
    /\ Running(t, "CleanupExpired")
    /\ Finish(t, CleanupMap(Data, now), [NoRet EXCEPT !.ok = TRUE])

\* The wall clock advances by one second.
Tick ==
    /\ ~crashed
    /\ now < MaxTime
    /\ now' = now + 1
    /\ UNCHANGED <<Data, mu, pc, op, ret, crashed, request, response, bulk, file, engine>>

Next ==
    \/ \E t \in Tasks : RLock(t)
    \/ \E t \in Tasks : Lock(t)
    \/ \E t \in Tasks : Unlock(t)
    \/ \E t \in Tasks : Get(t)
    \/ \E t \in Tasks : GetRace(t)
    \/ \E t \in Tasks : Set(t)
    \/ \E t \in Tasks : Delete(t)
    \/ \E t \in Tasks : Exists(t)
    \/ \E t \in Tasks : Keys(t)
    \/ \E t \in Tasks : FlushAll(t)
    \/ \E t \in Tasks : Size(t)
    \/ \E t \in Tasks : SetTTL(t)
    \/ \E t \in Tasks : GetTTL(t)
    \/ \E t \in Tasks : CleanupExpired(t)
    \/ Tick

Spec == Init /\ [][Next]_vars

\* ---------------------------------------- one client, whole commands -----
\* A single client sending well-formed string commands through both front
\* ends and the Go API: every command runs from its first Database call to
\* its answer with no other command in between.

\* Request r has been served: the map and the answer are what served says.
Respond(r, served) ==
    /\ ~crashed
    /\ Data' = served.db
    /\ request' = r
    /\ response' = served.reply
    /\ UNCHANGED <<mu, now, pc, op, ret, crashed, bulk, file, engine>>

Answer(r) ==
    LET served == Serve(Data, r, now)
    IN  Fits(served.db) /\ Respond(r, served)

TcpCommand == \E r \in TcpStringLines : Answer(r)
HttpRequest == \E r \in HttpRequests : Answer(r)
ApiCall == \E r \in ApiCalls : Answer(r)

CmdNext == TcpCommand \/ HttpRequest \/ ApiCall \/ Tick

SpecCmd == Init /\ [][CmdNext]_vars

\* ------------------------------------------- the TCP dispatcher alone ----
\* A single TCP client that sends any line, well-formed or not.
TcpAnyLine == \E r \in TcpLines : Answer(r)

TcpNext == TcpAnyLine \/ Tick

SpecTcp == Init /\ [][TcpNext]_vars

\* ------------------------------------------------- GetRange alone -------
\* A caller of the Go API that stores strings under one key and reads
\* substrings of it back with GetRange.
RangeKey == <<"k">>
Hello == <<"h", "e", "l", "l", "o">>
\* the strings stored: every prefix of "hello", the empty one included
RangeStrings == {SubSeq(Hello, 1, n) : n \in 0 .. Len(Hello)}
\* start and end: from below -len to above len, and far outside
RangeIndices == (-7 .. 7) \cup {10, 20}

SetString ==
    \E s \in RangeStrings :
        LET r == Request("api", "Set", <<RangeKey, s>>, <<0>>, FALSE)
        IN  Respond(r, Serve(Data, r, now))

GetRange ==
    \E start \in RangeIndices, end \in RangeIndices :
        LET r == Request("api", "GetRange", <<RangeKey>>, <<start, end>>, FALSE)
        IN  Respond(r, Serve(Data, r, now))

RangeNext == SetString \/ GetRange

SpecRange == Init /\ [][RangeNext]_vars

\* ----------------------------------------------------- MSet and MGet -----
\* Two clients running the bulk commands (POST /bulk/set, POST /bulk/get).
\* MSet and MGet take no lock of their own: each loop iteration is one call
\* of db.Set or db.Get, a critical section of its own, and calls of other
\* clients can come in between two iterations.
BulkValues == {<<"a", "a">>, <<"b", "b">>}
\* the maps MSet is called with: one value for all the keys
BulkMaps == {[k \in KeySet |-> v] : v \in BulkValues}
\* the key lists MGet is called with
BulkKeyLists == {<<"k1", "k2">>, <<"k2", "k1">>}

\* An MSet iteration that writes every key of the map at once.
MSetStoreAll(m, kv, key, t) ==
    [k \in (DOMAIN m) \cup (DOMAIN kv) |->
        IF k \in DOMAIN kv
        THEN SetMap(m, k, StringValue(kv[k], 0, t), t)[k] ELSE m[k]]

\* one iteration of MSet's loop: db.Set of a freshly built value
MSetStore(m, kv, key, t) == SetMap(m, key, StringValue(kv[key], 0, t), t)

\* results[i] of MGet, from what db.Get returned
MGetResult(r) ==
    IF ~r.ok \/ r.value[1].Type # "STRING" THEN NilData
    ELSE StrData(r.value[1].Data)

BulkStep(t, m, b) ==
    /\ ~crashed
    /\ Data' = m
    /\ bulk' = [bulk EXCEPT ![t] = b]
    /\ UNCHANGED <<mu, now, pc, op, ret, crashed, request, response, file, engine>>

MSetCall(t) ==
    /\ bulk[t].name = "none"
    /\ \E kv \in BulkMaps :
           BulkStep(t, Data, [NoBulk EXCEPT !.name = "MSet", !.kv = kv,
                                            !.todo = DOMAIN kv])

\* range over a map: the keys come in no particular order
MSetIteration(t) ==
    /\ bulk[t].name = "MSet"
    /\ \E k \in bulk[t].todo :
           BulkStep(t, MSetStore(Data, bulk[t].kv, k, now),
                    [bulk[t] EXCEPT !.todo = @ \ {k}])

MSetReturn(t) ==
    /\ bulk[t].name = "MSet"
    /\ bulk[t].todo = {}
    /\ BulkStep(t, Data, NoBulk)

MGetCall(t) ==
    /\ bulk[t].name = "none"
    /\ \E keys \in BulkKeyLists :
           BulkStep(t, Data, [NoBulk EXCEPT !.name = "MGet", !.keys = keys])

MGetIteration(t) ==
    /\ bulk[t].name = "MGet"
    /\ Len(bulk[t].results) < Len(bulk[t].keys)
    /\ LET key == bulk[t].keys[Len(bulk[t].results) + 1]
       IN  BulkStep(t, GetMap(Data, key, now),
                    [bulk[t] EXCEPT !.results =
                         Append(@, MGetResult(GetResult(Data, key, now)))])

MGetReturn(t) ==
    /\ bulk[t].name = "MGet"
    /\ Len(bulk[t].results) = Len(bulk[t].keys)
    /\ BulkStep(t, Data, NoBulk)

BulkNext ==
    \E t \in Tasks :
        \/ MSetCall(t)
        \/ MSetIteration(t)
        \/ MSetReturn(t)
        \/ MGetCall(t)
        \/ MGetIteration(t)
        \/ MGetReturn(t)

SpecBulk == Init /\ [][BulkNext]_vars

\* ---------------------------------- the HTTP routes outside /string ------
\* StringCommands.MGet: db.Get on every key in turn
RECURSIVE MGetAll(_, _, _)
MGetAll(m, keys, t) ==
    IF Len(keys) = 0 THEN [db |-> m, results |-> <<>>]
    ELSE LET rest == MGetAll(GetMap(m, keys[1], t), Tail(keys), t)
         IN  [db |-> rest.db,
              results |-> <<MGetResult(GetResult(m, keys[1], t))>> \o rest.results]

\* StringCommands.MSet on a payload of key/value pairs with distinct keys:
\* db.Set of a fresh string on every pair
RECURSIVE MSetAll(_, _, _)
MSetAll(m, pairs, t) ==
    IF Len(pairs) = 0 THEN m
    ELSE MSetAll(SetMap(m, pairs[1][1], StringValue(pairs[1][2], 0, t), t),
                 Tail(pairs), t)

\* What handleKeyOperations does with POST and PUT: its switch has no case
\* for them, so the handler returns having written nothing and net/http
\* answers 200 with an empty body.
KeyPost(m, key, value, t) == Served(m, Reply("200", NilData, ""))

\* handleKeyOperations, handleTTL (POST), handleBulkGet and handleBulkSet;
\* args holds the key and the posted value, or the keys, or the pairs of the
\* payload, nums the seconds, bad marks a body that is not JSON.
HttpStore(m, route, args, nums, bad, t) ==
    CASE route = "keys.get" ->
            LET r == GetResult(m, args[1], t)
            IN  IF ~r.ok
                THEN Served(GetMap(m, args[1], t), Reply("404", NilData, "key not found"))
                ELSE Served(m, Reply("200", StrData(r.value[1].Data), ""))
      [] route = "keys.delete" ->
            IF DeleteResult(m, args[1])
            THEN Served(DeleteMap(m, args[1]), Reply("200", NilData, "key deleted"))
            ELSE Served(m, Reply("404", NilData, "key not found"))
      [] route \in {"keys.post", "keys.put"} -> KeyPost(m, args[1], args[2], t)
      [] route = "ttl.post" ->
            IF bad THEN Served(m, Reply("400", NilData, "invalid JSON payload"))
            ELSE IF SetTTLResult(m, args[1])
            THEN Served(SetTTLMap(m, args[1], nums[1], t),
                        Reply("200", NilData, "TTL set successfully"))
            ELSE Served(m, Reply("404", NilData, "key not found"))
      [] route = "bulk.get" ->
            IF bad THEN Served(m, Reply("400", NilData, "invalid JSON payload"))
            ELSE Served(MGetAll(m, args, t).db,
                        Reply("200", IntData(Len(MGetAll(m, args, t).results)), ""))
      [] route = "bulk.set" ->
            IF bad THEN Served(m, Reply("400", NilData, "invalid JSON payload"))
            ELSE Served(MSetAll(m, args, t),
                        Reply("200", IntData(Len(args)), "bulk set successful"))

StringRoutes ==
    {"string.get", "string.set", "string.append", "string.length",
     "string.incr", "string.decr"}
\* the routes whose handler reads a JSON body
BodyRoutes ==
    {"string.set", "string.append", "string.incr", "ttl.post", "bulk.get",
     "bulk.set"}

\* the router: the handler of the request's route
HttpServe(m, r, t) ==
    IF r.name \in StringRoutes
    THEN HttpString(m, r.name, r.args, r.nums, r.bad, t)
    ELSE HttpStore(m, r.name, r.args, r.nums, r.bad, t)

HttpStoreRequests ==
    {Request("http", r, <<k>>, <<>>, FALSE) :
         r \in {"keys.get", "keys.delete"}, k \in CmdKeys}
    \cup {Request("http", r, <<k, v>>, <<>>, FALSE) :
              r \in {"keys.post", "keys.put"}, k \in CmdKeys, v \in TcpValues}
    \cup {Request("http", "ttl.post", <<k>>, <<n>>, FALSE) :
              k \in CmdKeys, n \in {-1, 1}}
    \cup {Request("http", "bulk.get", <<k>>, <<>>, FALSE) : k \in CmdKeys}
    \cup {Request("http", "bulk.set", <<<<k, v>>>>, <<>>, FALSE) :
              k \in CmdKeys, v \in TcpValues}
    \cup {Request("http", r, <<k>>, <<0>>, TRUE) :
              r \in {"ttl.post", "bulk.get", "bulk.set"}, k \in CmdKeys}

\* one HTTP request served from its first Database call to its answer
HttpAny ==
    \E r \in HttpRequests \cup HttpStoreRequests :
        LET served == HttpServe(Data, r, now)
        IN  Fits(served.db) /\ Respond(r, served)

HttpNext == HttpAny \/ Tick

SpecHttp == Init /\ [][HttpNext]_vars

\* The lines that reach the store: the well-formed ones and the malformed
\* ones processCommand does not answer with -ERR.
FrontLines ==
    TcpGoodLines
    \cup {r \in TcpBadLines :
              processCommand(EmptyMap, r.name, r.args, StartTime).reply.code # "-ERR"}

FrontLine == \E r \in FrontLines : Answer(r)

\* both front ends
FrontNext == FrontLine \/ HttpAny \/ Tick

SpecFront == Init /\ [][FrontNext]_vars

\* ------------------------------------------------- Keys and its patterns -
\* Keys that look like globs and patterns that would match more than
\* themselves if globs were matched.
GlobKeys == {"abc", "ab", "a*"}
GlobPatterns == {"*", "a*", "ab*", "abc", "a"}

\* db.Set of a string without deadline
KeysStore ==
    \E k \in GlobKeys, v \in Strings :
        Respond(Request("db", "Set", <<k, v>>, <<>>, FALSE),
                Served(SetMap(Data, k, StringValue(v, 0, now), now),
                       Reply("ok", NilData, "")))

\* db.Delete
KeysRemove ==
    \E k \in GlobKeys :
        Respond(Request("db", "Delete", <<k>>, <<>>, FALSE),
                Served(DeleteMap(Data, k),
                       Reply(IF DeleteResult(Data, k) THEN "ok" ELSE "missing",
                             NilData, "")))

\* db.Keys(pattern)
KeysQuery ==
    \E p \in GlobPatterns :
        Respond(Request("db", "Keys", <<p>>, <<>>, FALSE),
                Served(Data, [Reply("ok", NilData, "")
                                  EXCEPT !.keys = KeysResult(Data, p)]))

KeysNext == KeysStore \/ KeysRemove \/ KeysQuery

SpecKeys == Init /\ [][KeysNext]_vars

\* ----------------------------------------- the engine and its snapshot ----
\* The values the callers of MemoryEngine.Set store: a string with a
\* deadline, a string holding a byte that is not UTF-8, and a value json
\* cannot encode.
SaveValues ==
    {StringValue(<<"a">>, 1, StartTime), StringValue(<<BadByte>>, 0, StartTime),
     ChanValue}

\* The file an earlier run may have left: none, one that is not JSON, or the
\* snapshot of a store holding one key.
InitialFiles ==
    {NoFile, FileOf("malformed", EmptyMap),
     FileOf("valid",
            MarshalIndent(SetMap(EmptyMap, "k1", StringValue(<<"a">>, 0, StartTime),
                                 StartTime)).doc)}

SaveInit ==
    /\ Data = EmptyMap
    /\ mu = [writer |-> NoTask, readers |-> {}]
    /\ now = StartTime
    /\ pc = [t \in Tasks |-> "idle"]
    /\ op = [t \in Tasks |-> NoOp]
    /\ ret = [t \in Tasks |-> NoRet]
    /\ crashed = FALSE
    /\ request = NoRequest
    /\ response = NoReply
    /\ bulk = [t \in Tasks |-> NoBulk]
    /\ file \in InitialFiles
    /\ engine = NewEngine

\* NewMemoryEngine(persistencePath, autoSave) with a path: an empty map, then
\* loadFromDisk, then the autosave routine is started if asked for.
NewMemoryEngine ==
    /\ engine.phase = "new"
    /\ \E autoSave \in BOOLEAN :
           LET load == loadFromDisk(file)
           IN  /\ Data' = load.data
               /\ engine' = [engine EXCEPT
                      !.phase = "running", !.autoSave = autoSave,
                      !.loadErr = load.err,
                      !.ctorErr = NewMemoryEngineError(load),
                      !.routine = IF autoSave THEN "select" ELSE "none"]
    /\ UNCHANGED <<mu, now, pc, op, ret, crashed, request, response, bulk, file>>

\* A caller's whole Get, Set or Delete on the engine: the map it leaves and
\* what it is answered.
EngineCall(r, m, reply) ==
    /\ engine.phase = "running"
    /\ engine.stop = "none"
    /\ Data' = m
    /\ request' = r
    /\ response' = reply
    /\ UNCHANGED <<mu, now, pc, op, ret, crashed, bulk, file, engine>>

\* MemoryEngine.Set under me.mu.Lock()
EngineSet ==
    /\ mu.writer = NoTask /\ mu.readers = {}
    /\ \E k \in KeySet, v \in SaveValues :
           EngineCall(Request("engine", "Set", <<k, v.Data>>, <<>>, FALSE),
                      SetMap(Data, k, v, now), Reply("ok", NilData, ""))

\* MemoryEngine.Delete under me.mu.Lock()
EngineDelete ==
    /\ mu.writer = NoTask /\ mu.readers = {}
    /\ \E k \in KeySet :
           EngineCall(Request("engine", "Delete", <<k>>, <<>>, FALSE),
                      DeleteMap(Data, k),
                      Reply(IF DeleteResult(Data, k) THEN "ok" ELSE "missing",
                            NilData, ""))

\* MemoryEngine.Get under me.mu.RLock()
EngineGet ==
    /\ mu.writer = NoTask
    /\ \E k \in KeySet :
           LET r == GetResult(Data, k, now)
           IN  EngineCall(Request("engine", "Get", <<k>>, <<>>, FALSE),
                          GetMap(Data, k, now),
                          IF r.ok THEN Reply("ok", StrData(r.value[1].Data), "")
                          ELSE Reply("missing", NilData, ""))

\* Goroutine s is the one whose SaveToDisk is to run or running.
Saving(s) ==
    \/ s = "auto" /\ engine.routine \in {"save", "final"}
    \/ s = "stop" /\ engine.stop = "save"

\* A failed SaveToDisk that ends the autosave routine.
SaveReturnsFatal(e, s, err) ==
    [e EXCEPT !.saver[s] = [NoSaver EXCEPT !.err = err],
              !.failed = @ \/ err,
              !.routine = IF s = "auto" THEN "exited" ELSE @,
              !.stop = IF s = "stop" THEN "returned" ELSE @]

\* SaveToDisk returns err to goroutine s: the routine goes back to its
\* select (or returns, after the final save), Stop returns to its caller.
SaveReturns(e, s, err) ==
    [e EXCEPT !.saver[s] = [NoSaver EXCEPT !.err = err],
              !.failed = @ \/ err,
              !.routine = IF s = "auto"
                          THEN (IF @ = "final" THEN "exited" ELSE "select")
                          ELSE @,
              !.stop = IF s = "stop" THEN "returned" ELSE @]

\* the deferred me.mu.RUnlock() of SaveToDisk
SaveRUnlock(s) == mu' = [mu EXCEPT !.readers = @ \ {s}]

\* SaveToDisk: me.mu.RLock() and the copy of the map
SaveCopy(s) ==
    /\ Saving(s)
    /\ engine.path
    /\ engine.saver[s].pc = "idle"
    /\ mu.writer = NoTask
    /\ mu' = [mu EXCEPT !.readers = @ \cup {s}]
    /\ engine' = [engine EXCEPT !.saver[s] = [pc |-> "copied", copy |-> Data,
                                              err |-> FALSE]]
    /\ UNCHANGED <<Data, now, pc, op, ret, crashed, request, response, bulk, file>>

\* SaveToDisk: json.MarshalIndent of the copy; its error is returned
SaveMarshal(s) ==
    /\ engine.saver[s].pc = "copied"
    /\ IF MarshalIndent(engine.saver[s].copy).ok
       THEN /\ engine' = [engine EXCEPT !.saver[s].pc = "marshalled"]
            /\ UNCHANGED mu
       ELSE /\ engine' = SaveReturns(engine, s, TRUE)
            /\ SaveRUnlock(s)
    /\ UNCHANGED <<Data, now, pc, op, ret, crashed, request, response, bulk, file>>

\* os.WriteFile opens the file with O_TRUNC ...
SaveTruncate(s) ==
    /\ engine.saver[s].pc = "marshalled"
    /\ file' = FileOf("partial", EmptyMap)
    /\ engine' = [engine EXCEPT !.saver[s].pc = "truncated"]
    /\ UNCHANGED <<Data, mu, now, pc, op, ret, crashed, request, response, bulk>>

\* ... or fails to open it
SaveOpenFails(s) ==
    /\ engine.saver[s].pc = "marshalled"
    /\ engine' = SaveReturns(engine, s, TRUE)
    /\ SaveRUnlock(s)
    /\ UNCHANGED <<Data, now, pc, op, ret, crashed, request, response, bulk, file>>

\* os.WriteFile writes the document to its end and SaveToDisk returns nil
SaveWrite(s) ==
    /\ engine.saver[s].pc = "truncated"
    /\ file' = FileOf("valid", MarshalIndent(engine.saver[s].copy).doc)
    /\ engine' = SaveReturns(engine, s, FALSE)
    /\ SaveRUnlock(s)
    /\ UNCHANGED <<Data, now, pc, op, ret, crashed, request, response, bulk>>

\* ... or the write fails part of the way and SaveToDisk returns the error
SaveWriteFails(s) ==
    /\ engine.saver[s].pc = "truncated"
    /\ file' = FileOf("partial", EmptyMap)
    /\ engine' = SaveReturns(engine, s, TRUE)
    /\ SaveRUnlock(s)
    /\ UNCHANGED <<Data, now, pc, op, ret, crashed, request, response, bulk>>

\* autoSaveRoutine: case <-ticker.C
AutoSaveTick ==
    /\ engine.routine = "select"
    /\ engine' = [engine EXCEPT !.routine = "save"]
    /\ UNCHANGED <<Data, mu, now, pc, op, ret, crashed, request, response, bulk, file>>

\* MemoryEngine.Stop is called: with autosave it offers a value on stopChan,
\* without it goes on to its SaveToDisk
Stop ==
    /\ engine.phase = "running"
    /\ engine.stop = "none"
    /\ engine' = [engine EXCEPT !.stop = IF engine.autoSave THEN "send" ELSE "save"]
    /\ UNCHANGED <<Data, mu, now, pc, op, ret, crashed, request, response, bulk, file>>

\* autoSaveRoutine: case <-me.stopChan; the send of Stop completes and both
\* goroutines go on to SaveToDisk
StopReceived ==
    /\ engine.stop = "send"
    /\ engine.routine = "select"
    /\ engine' = [engine EXCEPT !.stop = "save", !.routine = "final"]
    /\ UNCHANGED <<Data, mu, now, pc, op, ret, crashed, request, response, bulk, file>>

SaveNext ==
    \/ NewMemoryEngine
    \/ EngineSet
    \/ EngineDelete
    \/ EngineGet
    \/ AutoSaveTick
    \/ Stop
    \/ StopReceived
    \/ \E s \in Savers : SaveCopy(s)
    \/ \E s \in Savers : SaveMarshal(s)
    \/ \E s \in Savers : SaveTruncate(s)
    \/ \E s \in Savers : SaveOpenFails(s)
    \/ \E s \in Savers : SaveWrite(s)
    \/ \E s \in Savers : SaveWriteFails(s)

SpecSave == SaveInit /\ [][SaveNext]_vars

\* ------------------------------------------------ Stop and stopChan -----
\* The engine in every configuration, with Stop called any number of times.
\* stopChan is unbuffered: the send in Stop completes only in the step in
\* which the autosave routine receives.

\* NewMemoryEngine("", autoSave): nothing is loaded, and no routine is
\* started whatever autoSave says
NewMemoryEngineNoPath ==
    /\ engine.phase = "new"
    /\ \E autoSave \in BOOLEAN :
           engine' = [engine EXCEPT !.phase = "running", !.path = FALSE,
                                    !.autoSave = autoSave, !.routine = "none"]
    /\ Data' = EmptyMap
    /\ UNCHANGED <<mu, now, pc, op, ret, crashed, request, response, bulk, file>>

\* SaveToDisk with an empty persistencePath returns nil at once
SaveNoPath(s) ==
    /\ Saving(s)
    /\ ~engine.path
    /\ engine.saver[s].pc = "idle"
    /\ engine' = SaveReturns(engine, s, FALSE)
    /\ UNCHANGED <<Data, mu, now, pc, op, ret, crashed, request, response, bulk, file>>

\* Stop is called again after an earlier call has returned
StopAgain ==
    /\ engine.stop = "returned"
    /\ engine' = [engine EXCEPT !.stop = IF engine.autoSave THEN "send" ELSE "save"]
    /\ UNCHANGED <<Data, mu, now, pc, op, ret, crashed, request, response, bulk, file>>

\* the steps of SaveToDisk in goroutine s
SaveToDisk(s) ==
    \/ SaveNoPath(s)
    \/ SaveCopy(s)
    \/ SaveMarshal(s)
    \/ SaveTruncate(s) \/ SaveOpenFails(s)
    \/ SaveWrite(s) \/ SaveWriteFails(s)

StopNext ==
    \/ NewMemoryEngine
    \/ NewMemoryEngineNoPath
    \/ EngineSet
    \/ AutoSaveTick
    \/ Stop
    \/ StopAgain
    \/ StopReceived
    \/ \E s \in Savers : SaveNoPath(s)
    \/ \E s \in Savers : SaveCopy(s)
    \/ \E s \in Savers : SaveMarshal(s)
    \/ \E s \in Savers : SaveTruncate(s)
    \/ \E s \in Savers : SaveOpenFails(s)
    \/ \E s \in Savers : SaveWrite(s)
    \/ \E s \in Savers : SaveWriteFails(s)

\* Both goroutines keep running: a SaveToDisk that has been called goes on
\* to its return, and a routine that comes back to its select again and
\* again while Stop is sending takes the stop case at some point (select
\* picks among its ready cases at random).
SpecStop ==
    /\ SaveInit /\ [][StopNext]_vars
    /\ \A s \in Savers : WF_vars(SaveToDisk(s))
    /\ SF_vars(StopReceived)

\* ------------------------------------------- concurrent increments -----
\* The clients of Tasks each call StringCommands.Incr on one key. IncrBy
\* takes no lock of its own: its db.Get and its db.Set are two critical
\* sections, and calls of other clients can come in between them. When
\* every client has returned, a new batch of calls starts; request then
\* records the integer the key held when the batch started.
IncrKey == <<"n">>

\* the integer the key held when the running batch of calls started
IncrOriginal == IF request.nums = <<>> THEN 0 ELSE request.nums[1]

\* IncrBy up to and including its parse of the value: db.Get, the type
\* check and strconv.ParseInt; on an error it returns at once.
IncrCall(t) ==
    /\ ~crashed
    /\ pc[t] = "idle"
    /\ LET r == GetResult(Data, IncrKey, now)
           parsed == IF r.ok /\ r.value[1].Type = "STRING"
                     THEN ParseInt(r.value[1].Data) ELSE [ok |-> TRUE, val |-> 0]
           failed == r.ok /\ (r.value[1].Type # "STRING" \/ ~parsed.ok)
       IN  /\ Data' = GetMap(Data, IncrKey, now)
           /\ pc' = [pc EXCEPT ![t] = IF failed THEN "done" ELSE "read"]
           /\ ret' = [ret EXCEPT ![t] = [NoRet EXCEPT !.ok = ~failed,
                                                      !.num = parsed.val]]
    /\ op' = [op EXCEPT ![t] = [NoOp EXCEPT !.name = "Incr", !.key = IncrKey]]
    /\ UNCHANGED <<mu, now, crashed, request, response, bulk, file, engine>>

\* the rest of IncrBy: the sum, db.Set of a freshly built value, and the
\* return of the sum
IncrStore(t) ==
    /\ ~crashed
    /\ pc[t] = "read"
    /\ LET newValue == WrapInt64(ret[t].num + 1)
       IN  /\ Data' = SetMap(Data, IncrKey,
                             StringValue(FormatInt(newValue), 0, now), now)
           /\ ret' = [ret EXCEPT ![t] = [NoRet EXCEPT !.ok = TRUE,
                                                      !.num = newValue]]
    /\ pc' = [pc EXCEPT ![t] = "done"]
    /\ UNCHANGED <<mu, now, op, crashed, request, response, bulk, file, engine>>

\* every client has returned: the next batch of calls starts
IncrBatch ==
    /\ \A t \in Tasks : pc[t] = "done"
    /\ pc' = [t \in Tasks |-> "idle"]
    /\ op' = [t \in Tasks |-> NoOp]
    /\ ret' = [t \in Tasks |-> NoRet]
    /\ request' = Request("api", "Incr", <<IncrKey>>,
                          <<ParseInt(Data[IncrKey].Data).val>>, FALSE)
    /\ UNCHANGED <<Data, mu, now, crashed, response, bulk, file, engine>>

IncrNext ==
    \/ \E t \in Tasks : IncrCall(t)
    \/ \E t \in Tasks : IncrStore(t)
    \/ IncrBatch

SpecIncr == Init /\ [][IncrNext]_vars

\* ------------------------------- clients and the background tasks ------
\* The goroutines that contend for the store's lock: the clients of Tasks,
\* each with one mutation at a time, the expiration sweep (a ticker that
\* calls CleanupExpired) and the autosave routine (a ticker that calls
\* SaveToDisk). Here a goroutine that has called Lock and not been granted
\* it yet is in a state of its own, and the lock is Go's sync.RWMutex:
\* Lock first queues for the inner mutex, which hands itself to a waiter
\* in arrival order once that waiter has waited for a millisecond
\* (starvation mode), then announces the writer, and from the announcement
\* on RLock blocks; the writer proceeds when the readers that were inside
\* have left.
Sweeper == "sweep"
AutoSaver == "auto"
FairTasks == Tasks \cup {Sweeper, AutoSaver}
FairKey == "k1"

\* the mutations a client can be calling at time t
FairRequests(t) ==
    {[NoOp EXCEPT !.name = "Set", !.key = FairKey,
                  !.value = <<StringValue(<<"a">>, 1, t)>>],
     [NoOp EXCEPT !.name = "Delete", !.key = FairKey],
     [NoOp EXCEPT !.name = "SetTTL", !.key = FairKey, !.seconds = -1],
     [NoOp EXCEPT !.name = "FlushAll"]}

\* The store a second after a client gave its key a deadline that has
\* passed by now (SET k1 a, EXPIRE k1 0); neither a Get nor the sweep has
\* come by yet.
FairInit ==
    /\ Data = SetTTLMap(SetMap(EmptyMap, FairKey, StringValue(<<"a">>, 0, StartTime),
                               StartTime),
                        FairKey, 0, StartTime)
    /\ mu = [writer |-> NoTask, readers |-> {}, waiting |-> <<>>]
    /\ now = StartTime + 1
    /\ pc = [t \in FairTasks |-> "idle"]
    /\ op = [t \in FairTasks |-> NoOp]
    /\ ret = [t \in FairTasks |-> NoRet]
    /\ crashed = FALSE
    /\ request = NoRequest
    /\ response = NoReply
    /\ bulk = [t \in Tasks |-> NoBulk]
    /\ file = NoFile
    /\ engine = NewEngine

\* Goroutine t calls mu.Lock() for request r and queues for the lock.
LockQueued(t, r) ==
    /\ pc[t] = "idle"
    /\ op' = [op EXCEPT ![t] = r]
    /\ pc' = [pc EXCEPT ![t] = "waiting"]
    /\ mu' = [mu EXCEPT !.waiting = Append(@, t)]
    /\ UNCHANGED <<Data, now, ret, crashed, request, response, bulk, file, engine>>

\* a client calls Set, Delete, SetTTL or FlushAll
LockCall(t) == \E r \in FairRequests(now) : LockQueued(t, r)

\* the ticker of the sweep fires: db.CleanupExpired()
SweepTick == LockQueued(Sweeper, [NoOp EXCEPT !.name = "CleanupExpired"])

\* Lock: the goroutine at the head of the queue gets the inner mutex and
\* announces itself as the writer
LockAnnounce(t) ==
    /\ pc[t] = "waiting"
    /\ mu.waiting # <<>> /\ Head(mu.waiting) = t
    /\ mu.writer = NoTask
    /\ mu' = [mu EXCEPT !.writer = t, !.waiting = Tail(@)]
    /\ pc' = [pc EXCEPT ![t] = "pending"]
    /\ UNCHANGED <<Data, now, op, ret, crashed, request, response, bulk, file, engine>>

\* Lock returns: the readers that were inside have left
LockDrained(t) ==
    /\ pc[t] = "pending"
    /\ mu.readers = {}
    /\ pc' = [pc EXCEPT ![t] = "held"]
    /\ UNCHANGED <<Data, mu, now, op, ret, crashed, request, response, bulk, file, engine>>

\* An RLock that is granted while a writer is announced and waiting for
\* the readers to leave.
AutoSaveRLockBarging ==
    /\ pc[AutoSaver] = "idle"
    /\ IF mu.writer = NoTask THEN TRUE ELSE pc[mu.writer] = "pending"
    /\ mu' = [mu EXCEPT !.readers = @ \cup {AutoSaver}]
    /\ op' = [op EXCEPT ![AutoSaver] = [NoOp EXCEPT !.name = "SaveToDisk"]]
    /\ pc' = [pc EXCEPT ![AutoSaver] = "held"]
    /\ UNCHANGED <<Data, now, ret, crashed, request, response, bulk, file, engine>>

\* the ticker of the autosave routine has fired: SaveToDisk's me.mu.RLock(),
\* granted while no writer is announced
AutoSaveRLock ==
    /\ pc[AutoSaver] = "idle"
    /\ mu.writer = NoTask
    /\ mu' = [mu EXCEPT !.readers = @ \cup {AutoSaver}]
    /\ op' = [op EXCEPT ![AutoSaver] = [NoOp EXCEPT !.name = "SaveToDisk"]]
    /\ pc' = [pc EXCEPT ![AutoSaver] = "held"]
    /\ UNCHANGED <<Data, now, ret, crashed, request, response, bulk, file, engine>>

\* SaveToDisk under the read lock: the copy, the JSON document and the file
\* (the steps and failures of the write are the subject of SpecSave)
AutoSaveToDisk ==
    /\ Running(AutoSaver, "SaveToDisk")
    /\ file' = IF MarshalIndent(Data).ok
               THEN FileOf("valid", MarshalIndent(Data).doc) ELSE file
    /\ pc' = [pc EXCEPT ![AutoSaver] = "done"]
    /\ UNCHANGED <<Data, mu, now, op, ret, crashed, request, response, bulk, engine>>

\* the steps of goroutine t once it has asked for the lock
FairProgress(t) ==
    \/ LockAnnounce(t)
    \/ LockDrained(t)
    \/ Set(t) \/ Delete(t) \/ SetTTL(t) \/ FlushAll(t) \/ CleanupExpired(t)
    \/ t = AutoSaver /\ AutoSaveToDisk
    \/ Unlock(t)

FairNext ==
    \/ \E t \in Tasks : LockCall(t)
    \/ SweepTick
    \/ AutoSaveRLock
    \/ \E t \in FairTasks : LockAnnounce(t)
    \/ \E t \in FairTasks : LockDrained(t)
    \/ \E t \in Tasks : Set(t)
    \/ \E t \in Tasks : Delete(t)
    \/ \E t \in Tasks : SetTTL(t)
    \/ \E t \in Tasks : FlushAll(t)
    \/ CleanupExpired(Sweeper)
    \/ AutoSaveToDisk
    \/ \E t \in FairTasks : Unlock(t)

\* The Go scheduler runs every goroutine that can run: a goroutine that has
\* asked for the lock and whose next step stays possible takes it. Nothing
\* obliges a client to call or a ticker to fire. The clock stands still:
\* the deadlines only decide what the sweep finds to remove.
SpecFair ==
    FairInit /\ [][FairNext]_vars /\ \A t \in FairTasks : WF_vars(FairProgress(t))

\* ------------------------------------ locks taken inside a lock --------
\* The engines of package storage whose methods call, with the lock held,
\* another method that takes the read lock of the same RWMutex:
\* MemoryEngine.GetStats calls GetMemoryUsage under RLock, and
\* DiskEngine.Set, Delete and Flush call persist, and PersistentStore.Set
\* calls Save, under Lock. Each behaviour is about one engine, which
\* engine.kind names; Data is its map, mu its lock, file its file. An
\* RWMutex is not reentrant: the inner RLock is a request like any other
\* and blocks while a writer is announced, whoever that writer is.
EngineKinds == {"memory", "disk", "store"}
NestedKey == "k1"

\* the methods that take the write lock, and those that take the read lock
WriteCalls(kind) ==
    CASE kind = "memory" ->
           {[NoOp EXCEPT !.name = "Set", !.key = NestedKey,
                         !.value = <<StringValue(<<"a">>, 0, StartTime)>>]}
      [] kind = "disk" ->
           {[NoOp EXCEPT !.name = n, !.key = NestedKey, !.value = <<"a">>] :
                n \in {"de.Set", "de.Delete", "de.Flush"}}
      [] kind = "store" ->
           {[NoOp EXCEPT !.name = "ps.Set", !.key = NestedKey, !.value = <<"a">>]}
ReadCalls(kind) ==
    CASE kind = "memory" -> {[NoOp EXCEPT !.name = "GetStats"]}
      [] kind = "disk" -> {[NoOp EXCEPT !.name = "de.Get", !.key = NestedKey]}
      [] kind = "store" -> {[NoOp EXCEPT !.name = "ps.Get", !.key = NestedKey]}

\* the methods that go on to persist or Save
PersistCalls == {"de.Set", "de.Delete", "de.Flush", "ps.Set"}

\* the map a DiskEngine or PersistentStore holds after the method's own
\* statements, before persist or Save
DiskMap(m, name, key, value) ==
    CASE name \in {"de.Set", "ps.Set"} -> MapStore(m, key, value)
      [] name = "de.Delete" -> MapDelete(m, key)
      [] name = "de.Flush" -> EmptyMap

\* MemoryEngine.GetMemoryUsage: the lengths of the keys ("k1", "k2": two
\* bytes) and of the string payloads
RECURSIVE MemoryUsage(_, _)
MemoryUsage(m, keys) ==
    IF keys = {} THEN 0
    ELSE LET k == CHOOSE x \in keys : TRUE
         IN  2 + (IF m[k].Type = "STRING" THEN Len(m[k].Data) ELSE 8)
               + MemoryUsage(m, keys \ {k})

\* A new engine: empty, or holding what load found in the file an earlier
\* run or another program left.
NestedInit ==
    /\ engine \in {[kind |-> k] : k \in EngineKinds}
    /\ Data \in (IF engine.kind = "memory" THEN {EmptyMap}
                 ELSE {EmptyMap, MapStore(EmptyMap, NestedKey, "b")})
    /\ file = IF Data = EmptyMap THEN NoFile ELSE FileOf("valid", Data)
    /\ mu = [writer |-> NoTask, readers |-> {}, waiting |-> <<>>]
    /\ now = StartTime
    /\ pc = [t \in Tasks |-> "idle"]
    /\ op = [t \in Tasks |-> NoOp]
    /\ ret = [t \in Tasks |-> NoRet]
    /\ crashed = FALSE
    /\ request = NoRequest
    /\ response = NoReply
    /\ bulk = [t \in Tasks |-> NoBulk]

\* a caller enters a method that starts with mu.Lock()
EngineLock(t) == \E r \in WriteCalls(engine.kind) : LockQueued(t, r)

\* a caller enters a method that starts with mu.RLock(): granted while no
\* writer is announced
EngineRLock(t) ==
    /\ pc[t] = "idle"
    /\ mu.writer = NoTask
    /\ \E r \in ReadCalls(engine.kind) : op' = [op EXCEPT ![t] = r]
    /\ mu' = [mu EXCEPT !.readers = @ \cup {t}]
    /\ pc' = [pc EXCEPT ![t] = "held"]
    /\ UNCHANGED <<Data, now, ret, crashed, request, response, bulk, file, engine>>

\* MemoryEngine.GetStats up to its call of me.GetMemoryUsage()
GetStats(t) ==
    /\ Running(t, "GetStats")
    /\ ret' = [ret EXCEPT ![t] = [NoRet EXCEPT !.value = <<SizeResult(Data)>>]]
    /\ pc' = [pc EXCEPT ![t] = "nested"]
    /\ UNCHANGED <<Data, mu, now, op, crashed, request, response, bulk, file, engine>>

\* DiskEngine.Set, Delete, Flush and PersistentStore.Set up to their call
\* of persist or Save; Delete of a key that is not there returns an error
\* instead
DiskWrite(t) ==
    /\ ~crashed /\ pc[t] = "held"
    /\ op[t].name \in PersistCalls
    /\ IF op[t].name = "de.Delete" /\ op[t].key \notin DOMAIN Data
       THEN /\ pc' = [pc EXCEPT ![t] = "done"]
            /\ UNCHANGED Data
       ELSE /\ pc' = [pc EXCEPT ![t] = "nested"]
            /\ Data' = DiskMap(Data, op[t].name, op[t].key, op[t].value[1])
    /\ UNCHANGED <<mu, now, op, ret, crashed, request, response, bulk, file, engine>>

\* DiskEngine.Get and PersistentStore.Get
DiskGet(t) ==
    /\ ~crashed /\ pc[t] = "held"
    /\ op[t].name \in {"de.Get", "ps.Get"}
    /\ ret' = [ret EXCEPT ![t] =
                  IF op[t].key \in DOMAIN Data
                  THEN [NoRet EXCEPT !.ok = TRUE, !.value = <<Data[op[t].key]>>]
                  ELSE NoRet]
    /\ pc' = [pc EXCEPT ![t] = "done"]
    /\ UNCHANGED <<Data, mu, now, op, crashed, request, response, bulk, file, engine>>

\* the mu.RLock() at the top of GetMemoryUsage, persist and Save, called by
\* a goroutine that holds the lock already: granted while no writer is
\* announced
NestedRLock(t) ==
    /\ ~crashed /\ pc[t] = "nested"
    /\ mu.writer = NoTask
    /\ mu' = [mu EXCEPT !.readers = @ \cup {t}]
    /\ pc' = [pc EXCEPT ![t] = "inner"]
    /\ UNCHANGED <<Data, now, op, ret, crashed, request, response, bulk, file, engine>>

\* the rest of GetMemoryUsage, persist or Save, its deferred RUnlock, and
\* the caller's statements up to its own deferred unlock
NestedReturn(t) ==
    /\ ~crashed /\ pc[t] = "inner"
    /\ IF op[t].name = "GetStats"
       THEN /\ ret' = [ret EXCEPT ![t] = [@ EXCEPT !.ok = TRUE,
                             !.num = MemoryUsage(Data, DOMAIN Data)]]
            /\ UNCHANGED <<file, mu>>
       ELSE /\ file' = FileOf("valid", Data)
            /\ ret' = [ret EXCEPT ![t] = [NoRet EXCEPT !.ok = TRUE]]
            /\ mu' = [mu EXCEPT !.readers = @ \ {t}]
    /\ pc' = [pc EXCEPT ![t] = "done"]
    /\ UNCHANGED <<Data, now, op, crashed, request, response, bulk, engine>>

\* the steps of goroutine t once it is inside a method
NestedProgress(t) ==
    \/ LockAnnounce(t) \/ LockDrained(t)
    \/ Set(t) \/ GetStats(t) \/ DiskWrite(t) \/ DiskGet(t)
    \/ NestedRLock(t) \/ NestedReturn(t)
    \/ Unlock(t)

NestedNext ==
    \/ \E t \in Tasks : EngineLock(t)
    \/ \E t \in Tasks : EngineRLock(t)
    \/ \E t \in Tasks : LockAnnounce(t)
    \/ \E t \in Tasks : LockDrained(t)
    \/ \E t \in Tasks : Set(t)
    \/ \E t \in Tasks : GetStats(t)
    \/ \E t \in Tasks : DiskWrite(t)
    \/ \E t \in Tasks : DiskGet(t)
    \/ \E t \in Tasks : NestedRLock(t)
    \/ \E t \in Tasks : NestedReturn(t)
    \/ \E t \in Tasks : Unlock(t)

\* The Go scheduler runs every goroutine that can run; nothing obliges a
\* caller to call.
SpecNested ==
    NestedInit /\ [][NestedNext]_vars /\ \A t \in Tasks : WF_vars(NestedProgress(t))

\* ---------------------------------------------------- steps and notions --
\* The step in which task t runs the body of operation name to its return.
BodyStep(t, name) ==
    pc[t] = "held" /\ op[t].name = name /\ pc'[t] = "done"

\* The step is the body of an operation that may replace, remove or re-time
\* key k: Set, Delete or SetTTL on k, or FlushAll.
Rewrites(k) ==
    \E t \in Tasks :
        \/ BodyStep(t, "FlushAll")
        \/ \E n \in {"Set", "Delete", "SetTTL"} :
               BodyStep(t, n) /\ op[t].key = k

\* The data model's notion of a value whose deadline has passed at time t.
PastDeadline(value, t) == value.TTL > 0 /\ t > value.TTL

\* --------------------------------------------------------------- claims --
\* C1: a key stored with a deadline ttl_at > 0 is returned by Get (found,
\* with the stored value) at every time now < ttl_at, and at every time
\* now > ttl_at Get reports found=false and removes the key; until its
\* deadline has passed the stored value is changed by nothing but a Set,
\* Delete or SetTTL on the key or a FlushAll.
C1_GetHonoursDeadline ==
    [][\A k \in DOMAIN Data :
         Data[k].TTL > 0 =>
           /\ \A t \in Tasks :
                BodyStep(t, "Get") /\ op[t].key = k =>
                  /\ now < Data[k].TTL =>
                       /\ ret'[t].ok
                       /\ ret'[t].value = <<Data[k]>>
                       /\ k \in DOMAIN Data' /\ Data'[k] = Data[k]
                  /\ now > Data[k].TTL =>
                       /\ ~ret'[t].ok
                       /\ ret'[t].value = <<>>
                       /\ k \notin DOMAIN Data'
           /\ (now <= Data[k].TTL /\ ~Rewrites(k)) =>
                k \in DOMAIN Data' /\ Data'[k] = Data[k]
      ]_vars

\* C1 witness: one Get has returned a value whose deadline is still ahead
\* while the key of another Get in progress is past its deadline.
C1_Witness ==
    \E t \in Tasks, u \in Tasks :
        /\ pc[t] = "done" /\ op[t].name = "Get" /\ ret[t].ok
        /\ ret[t].value[1].TTL > now
        /\ pc[u] = "held" /\ op[u].name = "Get"
        /\ op[u].key \in DOMAIN Data
        /\ PastDeadline(Data[op[u].key], now)

\* C2: after Set(k, v) with ttl = 0 the key holds v with no deadline, every
\* Get of such a key finds v, and no step other than a Set, Delete or SetTTL
\* on k or a FlushAll (no tick, sweep, eviction or operation on another key)
\* changes it.
C2_NoImplicitExpiration ==
    [][/\ \A t \in Tasks :
            BodyStep(t, "Set") /\ op[t].value[1].TTL = 0 =>
              /\ op[t].key \in DOMAIN Data'
              /\ Data'[op[t].key].Data = op[t].value[1].Data
              /\ Data'[op[t].key].TTL = 0
       /\ \A k \in DOMAIN Data :
            Data[k].TTL = 0 =>
              /\ \A t \in Tasks :
                   BodyStep(t, "Get") /\ op[t].key = k =>
                     /\ ret'[t].ok
                     /\ ret'[t].value = <<Data[k]>>
              /\ ~Rewrites(k) => k \in DOMAIN Data' /\ Data'[k] = Data[k]
      ]_vars

\* C2 witness: a Get finds a key without deadline that was last written at
\* an earlier second, after a sweep by the other task.
C2_Witness ==
    \E t \in Tasks, u \in Tasks :
        /\ pc[t] = "done" /\ op[t].name = "Get" /\ ret[t].ok
        /\ ret[t].value[1].TTL = 0
        /\ ret[t].value[1].UpdatedAt < now
        /\ op[t].key \in DOMAIN Data
        /\ Data[op[t].key] = ret[t].value[1]
        /\ u # t /\ pc[u] = "idle"

\* C3: a Set runs alone (it holds the write lock, no reader or other writer
\* is inside), so two tasks setting the same key leave exactly the value of
\* the one that ran last: after the body the key holds the payload, type and
\* deadline of that Set, every other key is as before, and the number of keys
\* has grown by one exactly when the key was new (N Sets on N distinct keys
\* into an empty store give Size() = N).
C3_SetIsExclusive ==
    [][\A t \in Tasks :
         BodyStep(t, "Set") =>
           LET k == op[t].key
               v == op[t].value[1]
           IN  /\ mu.writer = t /\ mu.readers = {}
               /\ \A u \in Tasks \ {t} : pc[u] = "idle"
               /\ DOMAIN Data' = DOMAIN Data \cup {k}
               /\ Data'[k].Data = v.Data
               /\ Data'[k].Type = v.Type
               /\ Data'[k].TTL = v.TTL
               /\ \A j \in DOMAIN Data \ {k} : Data'[j] = Data[j]
               /\ SizeResult(Data') =
                    SizeResult(Data) + (IF k \in DOMAIN Data THEN 0 ELSE 1)
      ]_vars

\* C3 witness: a Set has run while holding the write lock, the store holds
\* its payload under its key and one key per distinct key set so far.
C3_Witness ==
    \E t \in Tasks :
        /\ pc[t] = "done" /\ op[t].name = "Set"
        /\ mu.writer = t
        /\ Data[op[t].key].Data = op[t].value[1].Data
        /\ Data[op[t].key].CreatedAt = ZeroTime
        /\ SizeResult(Data) = Cardinality(KeySet)

\* C4 (as claimed): Exists returns true only for a key that is present and
\* whose deadline has not passed.
C4_ExistsOnlyIfLive ==
    [][\A t \in Tasks :
         BodyStep(t, "Exists") /\ ret'[t].ok =>
           /\ op[t].key \in DOMAIN Data
           /\ ~PastDeadline(Data[op[t].key], now)
      ]_vars

\* C5 (as claimed): Keys("*") returns exactly the keys that are present and
\* whose deadline has not passed.
C5_KeysOnlyLive ==
    [][\A t \in Tasks :
         BodyStep(t, "Keys") /\ op[t].key = "*" =>
           ret'[t].keys = {k \in DOMAIN Data : ~PastDeadline(Data[k], now)}
      ]_vars

\* C6: Delete(k) returns true exactly when k was in the store and leaves k
\* absent, so that a Get(k) that follows reports found=false; on an absent
\* key it returns false and changes nothing; every other key keeps its value.
C6_DeleteContract ==
    [][\A t \in Tasks :
         BodyStep(t, "Delete") =>
           LET k == op[t].key
           IN  /\ ret'[t].ok = (k \in DOMAIN Data)
               /\ k \notin DOMAIN Data'
               /\ ~GetResult(Data', k, now').ok
               /\ k \notin DOMAIN Data => Data' = Data
               /\ DOMAIN Data' = DOMAIN Data \ {k}
               /\ \A j \in DOMAIN Data \ {k} : Data'[j] = Data[j]
      ]_vars

\* C6 witness: a Delete has returned true, its key is gone and the other
\* key is still in the store.
C6_Witness ==
    \E t \in Tasks :
        /\ pc[t] = "done" /\ op[t].name = "Delete"
        /\ ret[t].ok
        /\ DOMAIN Data = KeySet \ {op[t].key}

\* C7: FlushAll discards all keys in one step that no reader is inside:
\* right after it Size() is 0 and Exists(k) and Get(k) report absent for
\* every key, and a key only comes back by a Set of that key.
C7_FlushAllContract ==
    [][/\ \A t \in Tasks :
            BodyStep(t, "FlushAll") =>
              /\ mu.writer = t /\ mu.readers = {}
              /\ \A u \in Tasks \ {t} : pc[u] = "idle"
              /\ SizeResult(Data') = 0
              /\ \A k \in KeySet :
                   /\ ~ExistsResult(Data', k)
                   /\ ~GetResult(Data', k, now').ok
       /\ \A k \in KeySet :
            (k \notin DOMAIN Data /\ k \in DOMAIN Data') =>
              \E t \in Tasks : BodyStep(t, "Set") /\ op[t].key = k
      ]_vars

\* C7 witness: a FlushAll has run, at a later second than the start, while
\* holding the write lock, and the store is empty.
C7_Witness ==
    \E t \in Tasks :
        /\ pc[t] = "done" /\ op[t].name = "FlushAll"
        /\ mu.writer = t
        /\ Data = EmptyMap
        /\ now > StartTime

\* C8: SetTTL(k, seconds) on a present key sets the deadline of k to
\* now + seconds and returns true, leaving the payload and type of k and
\* every other key as they were; on an absent key it returns false and
\* leaves the store unchanged.
C8_SetTTLContract ==
    [][\A t \in Tasks :
         BodyStep(t, "SetTTL") =>
           LET k == op[t].key
           IN  IF k \in DOMAIN Data
               THEN /\ ret'[t].ok
                    /\ DOMAIN Data' = DOMAIN Data
                    /\ Data'[k].TTL = now + op[t].seconds
                    /\ Data'[k].Data = Data[k].Data
                    /\ Data'[k].Type = Data[k].Type
                    /\ \A j \in DOMAIN Data \ {k} : Data'[j] = Data[j]
               ELSE /\ ~ret'[t].ok
                    /\ Data' = Data
      ]_vars

\* C8 witness: a SetTTL has returned true at a second after the start, the
\* key carries the deadline now + seconds and another key is in the store.
C8_Witness ==
    \E t \in Tasks :
        /\ pc[t] = "done" /\ op[t].name = "SetTTL"
        /\ ret[t].ok
        /\ now > StartTime
        /\ DOMAIN Data = KeySet
        /\ Data[op[t].key].TTL = now + op[t].seconds

\* C9: GetTTL returns -1 exactly when the key is present without a deadline
\* (TTL = 0), -2 exactly when the key is absent or has a deadline with
\* ttl_at - now <= 0, and otherwise ttl_at - now, which is then strictly
\* positive; it never returns 0.
C9_GetTTLContract ==
    [][\A t \in Tasks :
         BodyStep(t, "GetTTL") =>
           LET k == op[t].key
               r == ret'[t].num
               present == k \in DOMAIN Data
           IN  /\ (r = -1) <=> (present /\ Data[k].TTL = 0)
               /\ (r = -2) <=> (~present \/ (Data[k].TTL # 0
                                            /\ Data[k].TTL - now <= 0))
               /\ r \notin {-1, -2} => (r = Data[k].TTL - now /\ r > 0)
               /\ r # 0
      ]_vars

\* C9 witness: a GetTTL has returned -2 for a present key whose deadline is
\* the current second (remaining time exactly 0).
C9_Witness ==
    \E t \in Tasks :
        /\ pc[t] = "done" /\ op[t].name = "GetTTL"
        /\ op[t].key \in DOMAIN Data
        /\ Data[op[t].key].TTL = now
        /\ ret[t].num = -2

\* C10: a sweep at time t removes exactly the keys with 0 < ttl_at < t and
\* leaves the values of all remaining keys unchanged; a second sweep at the
\* same time changes nothing.
C10_SweepContract ==
    [][\A t \in Tasks :
         BodyStep(t, "CleanupExpired") =>
           /\ DOMAIN Data' =
                {k \in DOMAIN Data : ~(0 < Data[k].TTL /\ Data[k].TTL < now)}
           /\ \A k \in DOMAIN Data' : Data'[k] = Data[k]
           /\ CleanupMap(Data', now') = Data'
      ]_vars

\* C10 witness: a sweep has run and left exactly one key, whose deadline is
\* the current second.
C10_Witness ==
    \E t \in Tasks :
        /\ pc[t] = "done" /\ op[t].name = "CleanupExpired"
        /\ SizeResult(Data) = 1
        /\ \A k \in DOMAIN Data : Data[k].TTL = now

\* C11: created_at is stamped by the Set that first creates a key and keeps
\* that value through every later Set on the key (Append and IncrBy write
\* through the same Set) for as long as the key lives; updated_at is stamped
\* by every Set.
C11_CreatedAtPreserved ==
    [][\A t \in Tasks :
          BodyStep(t, "Set") =>
              LET k == op[t].key
              IN  /\ Data'[k].UpdatedAt = now
                  /\ k \notin DOMAIN Data => Data'[k].CreatedAt = now
                  /\ (k \in DOMAIN Data /\ ~PastDeadline(Data[k], now))
                         => Data'[k].CreatedAt = Data[k].CreatedAt]_vars

\* ------------------------------------------- claims on the commands ------
\* This step serves a request (it is not a tick of the clock); the request
\* is then request' and its answer response'.
Serving == now' = now

\* The answer reports success.
Succeeded(reply) == reply.code \in {"+", ":", "$", "*", "200", "ok"}

\* Key k is present in m and its deadline has not passed at time t.
Live(m, k, t) == k \in DOMAIN m /\ ~PastDeadline(m[k], t)

\* s is the decimal string of the integer n: its digits without leading
\* zeros, after a minus sign when n is negative.
IsDecimalOf(s, n) ==
    LET digits == IF n < 0 THEN Tail(s) ELSE s
        size == IF n < 0 THEN -n ELSE n
    IN  /\ Len(s) > 0
        /\ n < 0 => s[1] = "-"
        /\ Len(digits) > 0
        /\ \A i \in 1 .. Len(digits) : IsDigit(digits[i])
        /\ Len(digits) > 1 => digits[1] # "0"
        /\ DigitsValue(digits) = size

\* Live key k of m holds the decimal string of c.
HoldsInt(m, k, t, c) ==
    Live(m, k, t) /\ m[k].Type = "STRING" /\ IsDecimalOf(m[k].Data, c)

\* The well-formed requests that reach IncrBy, and the delta they pass.
IsIncr(r) ==
    \/ r.via = "tcp" /\ r.name \in {"INCR", "DECR"} /\ Len(r.args) = 1
    \/ r.via = "http" /\ r.name \in {"string.incr", "string.decr"}
    \/ r.via = "api" /\ r.name = "IncrBy"
IncrDelta(r) ==
    IF r.name \in {"DECR", "string.decr"} THEN -1
    ELSE IF r.name = "INCR" THEN 1
    ELSE IF r.name = "string.incr" /\ (r.bad \/ r.nums[1] = 0) THEN 1
    ELSE r.nums[1]

\* C12: IncrBy(k, d) (Incr is d = 1, Decr is d = -1) treats an absent or
\* expired key as holding 0; on a key holding the decimal string of c it
\* stores the decimal string of c + d and returns c + d.
C12_IncrByAdds ==
    [][(Serving /\ IsIncr(request')) =>
              LET k == request'.args[1]
                  d == IncrDelta(request')
              IN  /\ ~Live(Data, k, now) =>
                         /\ Succeeded(response')
                         /\ response'.data = IntData(d)
                         /\ HoldsInt(Data', k, now, d)
                  /\ \A c \in Int64Min .. Int64Max :
                         HoldsInt(Data, k, now, c) =>
                             /\ Succeeded(response')
                             /\ response'.data = IntData(c + d)
                             /\ HoldsInt(Data', k, now, c + d)]_vars

\* C12 (amended): as C12, with the sum c + d taken in int64, that is
\* wrapped around into the signed 64-bit range when it leaves it.
C12_IncrByAddsInt64 ==
    [][(Serving /\ IsIncr(request')) =>
              LET k == request'.args[1]
                  d == IncrDelta(request')
              IN  /\ ~Live(Data, k, now) =>
                         /\ Succeeded(response')
                         /\ response'.data = IntData(d)
                         /\ HoldsInt(Data', k, now, d)
                  /\ \A c \in Int64Min .. Int64Max :
                         HoldsInt(Data, k, now, c) =>
                             LET sum == IF c + d > Int64Max
                                          THEN c + d - 2 ^ IntBits
                                        ELSE IF c + d < Int64Min
                                          THEN c + d + 2 ^ IntBits
                                        ELSE c + d
                             IN  /\ Succeeded(response')
                                 /\ response'.data = IntData(sum)
                                 /\ HoldsInt(Data', k, now, sum)]_vars

\* SET k 10, INCR k: the key holds "11" and INCR answered :11.
C12_Witness ==
    /\ request = TcpLine("INCR", <<(<<"k">>)>>)
    /\ response = Reply(":", IntData(11), "")
    /\ Data[<<"k">>].Data = <<"1", "1">>

\* C13: on a key holding an integer, IncrBy(k, n) followed by IncrBy(k, -n),
\* with no other operation on k in between, leaves k holding the original
\* integer value.
C13_IncrByRoundTrip ==
    [][(Serving /\ IsIncr(request')) =>
          LET k == request'.args[1]
              n == IncrDelta(request')
              c == ParseInt(Data[k].Data)
              back == ScIncrBy(Data', k, -n, now)
          IN  (Live(Data, k, now) /\ Data[k].Type = "STRING" /\ c.ok) =>
                  /\ Succeeded(response')
                  /\ back.resp.Success
                  /\ back.resp.Data = IntData(c.val)
                  /\ ParseInt(back.db[k].Data) = c]_vars

\* An IncrBy(k, 3) whose sum left the int64 range and wrapped around; the
\* IncrBy(k, -3) that follows wraps back.
C13_Witness ==
    /\ request.name = "IncrBy"
    /\ request.nums = <<3>>
    /\ response.code = "ok"
    /\ response.data.num = Int64Min
    /\ ScIncrBy(Data, request.args[1], -3, now).resp.Data.num = Int64Max - 2

\* C14: IncrBy, Incr and Decr on a key whose stored string does not parse as
\* a base-10 int64, or whose value is not of type STRING, report failure with
\* an error message and leave the key's payload, type and expiration (and
\* the rest of the store) as they were.
C14_IncrByRejects ==
    [][(Serving /\ IsIncr(request')) =>
          LET k == request'.args[1]
          IN  (/\ Live(Data, k, now)
               /\ \/ Data[k].Type # "STRING"
                  \/ ~ParseInt(Data[k].Data).ok) =>
                  /\ ~Succeeded(response')
                  /\ response'.msg \in {"value is not a string",
                                       "value is not a valid integer"}
                  /\ Data' = Data]_vars

\* INCR on a key holding "a" was refused and the key still holds "a".
C14_Witness ==
    /\ request = TcpLine("INCR", <<(<<"k">>)>>)
    /\ response = Reply("-ERR", NilData, "value is not a valid integer")
    /\ Data[<<"k">>].Data = <<"a">>

\* The well-formed requests that reach Append; the string to append is
\* their second argument.
IsAppend(r) ==
    \/ r.via = "tcp" /\ r.name = "APPEND" /\ Len(r.args) = 2
    \/ r.via = "http" /\ r.name = "string.append" /\ ~r.bad

\* C15: Append(k, s) stores old + s, where old is the string k holds (empty
\* when k is absent or expired), and returns the length of what it stored,
\* which is what Strlen then reports; Append(k, "") leaves the length as it
\* was; Append on an absent key leaves the store as Set(k, s) would.
C15_AppendContract ==
    [][(Serving /\ IsAppend(request')) =>
          LET k == request'.args[1]
              s == request'.args[2]
              old == IF Live(Data, k, now) THEN Data[k].Data ELSE <<>>
              new == Data'[k].Data
          IN  (Live(Data, k, now) => Data[k].Type = "STRING") =>
                  /\ Succeeded(response')
                  /\ Data'[k].Type = "STRING"
                  /\ Len(new) = Len(old) + Len(s)
                  /\ \A i \in 1 .. Len(new) :
                         new[i] = IF i <= Len(old) THEN old[i]
                                  ELSE s[i - Len(old)]
                  /\ response'.data = IntData(Len(new))
                  /\ ScStrlen(Data', k, now).resp.Data = IntData(Len(new))
                  /\ Len(s) = 0 => Len(new) = Len(old)
                  /\ k \notin DOMAIN Data =>
                         Data' = ScSet(Data, k, s, 0, now).db]_vars

\* SET k a, APPEND k 1: the key holds "a1" and APPEND answered :2.
C15_Witness ==
    /\ request = TcpLine("APPEND", <<(<<"k">>), (<<"1">>)>>)
    /\ response = Reply(":", IntData(2), "")
    /\ Data[<<"k">>].Data = <<"a", "1">>

\* C16: every string command (Get, Append, Strlen, IncrBy, GetRange) run on
\* a key whose value has a type other than STRING reports failure and leaves
\* the stored value unchanged; none of them overwrites or reinterprets it.
C16_TypeMismatchRejected ==
    \A k \in DOMAIN Data :
        (Live(Data, k, now) /\ Data[k].Type # "STRING") =>
            \A o \in {ScGet(Data, k, now), ScStrlen(Data, k, now)}
                     \cup {ScAppend(Data, k, s, now) : s \in AppendValues}
                     \cup {ScIncrBy(Data, k, d, now) : d \in Deltas \cup {-1, 1}}
                     \cup {ScGetRange(Data, k, p[1], p[2], now) :
                               p \in RangePairs} :
                ~o.resp.Success /\ o.db = Data

\* C17: GetRange(k, start, end) on a key holding s returns the inclusive
\* substring from start' to end', where a negative index is first offset by
\* len(s), start' is then raised to 0 and end' lowered to len(s) - 1; the
\* result is "" when start' > end' (so for the empty string and for an
\* absent key), and no index outside s is ever used. On "hello", (0, -1)
\* gives "hello", (10, 20) gives "" and (-3, -1) gives "llo".
C17_GetRangeContract ==
    [][(Serving /\ request'.name = "GetRange") =>
          LET k == request'.args[1]
              s == IF Live(Data, k, now) THEN Data[k].Data ELSE <<>>
              offset(i) == IF i < 0 THEN Len(s) + i ELSE i
              first == IF offset(request'.nums[1]) < 0 THEN 0
                       ELSE offset(request'.nums[1])
              last == IF offset(request'.nums[2]) > Len(s) - 1 THEN Len(s) - 1
                      ELSE offset(request'.nums[2])
              got == response'.data.str
          IN  /\ response'.code = "ok"
              /\ ~response'.data.nil
              /\ Data' = Data
              /\ first > last => got = <<>>
              /\ first <= last =>
                     /\ Len(got) = last - first + 1
                     /\ \A j \in 1 .. Len(got) : got[j] = s[first + j]
              /\ (s = Hello /\ request'.nums = <<0, -1>>) => got = Hello
              /\ (s = Hello /\ request'.nums = <<10, 20>>) => got = <<>>
              /\ (s = Hello /\ request'.nums = <<-3, -1>>)
                     => got = <<"l", "l", "o">>]_vars

\* GetRange(k, -3, -1) on "hello" has answered "llo".
C17_Witness ==
    /\ request = Request("api", "GetRange", <<RangeKey>>, <<-3, -1>>, FALSE)
    /\ RangeKey \in DOMAIN Data
    /\ Data[RangeKey].Data = Hello
    /\ response = Reply("ok", StrData(<<"l", "l", "o">>), "")

\* The commands of the line protocol and the number of arguments their
\* syntax takes: PING, SET k v [EX seconds], GET k, DEL k..., EXISTS k,
\* KEYS [pattern], FLUSHALL, INFO, DBSIZE, TTL k, EXPIRE k seconds, INCR k,
\* DECR k, APPEND k v, STRLEN k.
CommandNames ==
    {"PING", "SET", "GET", "DEL", "EXISTS", "KEYS", "FLUSHALL", "INFO",
     "DBSIZE", "TTL", "EXPIRE", "INCR", "DECR", "APPEND", "STRLEN"}
RightArity(name, n) ==
    CASE name \in {"PING", "FLUSHALL", "INFO", "DBSIZE"} -> n = 0
      [] name \in {"GET", "EXISTS", "TTL", "INCR", "DECR", "STRLEN"} -> n = 1
      [] name \in {"EXPIRE", "APPEND"} -> n = 2
      [] name = "SET" -> n \in {2, 4}
      [] name = "KEYS" -> n \in {0, 1}
      [] name = "DEL" -> n >= 1

\* A line with an unknown command name, the wrong number of arguments, or
\* text that is no integer where SET ... EX and EXPIRE take their seconds.
Malformed(r) ==
    \/ r.name \notin CommandNames
    \/ ~RightArity(r.name, Len(r.args))
    \/ r.name = "SET" /\ Len(r.args) = 4 /\ ToUpper(r.args[3]) = <<"E", "X">>
          /\ ~ParseInt(r.args[4]).ok
    \/ r.name = "EXPIRE" /\ Len(r.args) = 2 /\ ~ParseInt(r.args[2]).ok

\* C18: for every TCP command, a request with the wrong number of arguments,
\* an unknown command name, or a non-integer where an integer is required
\* (SET ... EX seconds, EXPIRE) is answered -ERR and leaves the store
\* unchanged: arity and integers are validated before any store operation.
C18_MalformedRejected ==
    [][(Serving /\ request'.via = "tcp" /\ Malformed(request')) =>
          (response'.code = "-ERR" /\ Data' = Data)]_vars

\* The string commands both front ends offer, with their arguments.
SharedCommands ==
    {[cmd |-> c, key |-> k, value |-> <<>>, ttl |-> 0] :
         c \in {"get", "strlen", "incr", "decr"}, k \in CmdKeys}
    \cup {[cmd |-> "set", key |-> k, value |-> v, ttl |-> ttl] :
              k \in CmdKeys, v \in TcpValues, ttl \in {0, 1}}
    \cup {[cmd |-> "append", key |-> k, value |-> v, ttl |-> 0] :
              k \in CmdKeys, v \in AppendValues}

\* the line a TCP client sends for it
TcpForm(c) ==
    CASE c.cmd = "get" -> TcpLine("GET", <<c.key>>)
      [] c.cmd = "strlen" -> TcpLine("STRLEN", <<c.key>>)
      [] c.cmd = "incr" -> TcpLine("INCR", <<c.key>>)
      [] c.cmd = "decr" -> TcpLine("DECR", <<c.key>>)
      [] c.cmd = "append" -> TcpLine("APPEND", <<c.key, c.value>>)
      [] c.cmd = "set" ->
            IF c.ttl = 0 THEN TcpLine("SET", <<c.key, c.value>>)
            ELSE TcpLine("SET", <<c.key, c.value, <<"E", "X">>, FormatInt(c.ttl)>>)

\* the request an HTTP client sends for it
HttpForm(c) ==
    CASE c.cmd = "get" -> Request("http", "string.get", <<c.key>>, <<>>, FALSE)
      [] c.cmd = "strlen" ->
            Request("http", "string.length", <<c.key>>, <<>>, FALSE)
      [] c.cmd = "incr" -> Request("http", "string.incr", <<c.key>>, <<0>>, FALSE)
      [] c.cmd = "decr" -> Request("http", "string.decr", <<c.key>>, <<>>, FALSE)
      [] c.cmd = "append" ->
            Request("http", "string.append", <<c.key, c.value>>, <<>>, FALSE)
      [] c.cmd = "set" ->
            Request("http", "string.set", <<c.key, c.value>>, <<c.ttl>>, FALSE)

\* what a client learns from an answer: success or failure (TCP: neither an
\* error nor the null bulk reply; HTTP: status 200) and the data returned
ReplyOutcome(reply) ==
    [ok |-> reply.code \in {"+", ":", "$", "200"}, data |-> reply.data]

\* C19: for every string command both front ends offer (get, set with an
\* optional ttl, append, strlen, incr, decr), running it through TCP and
\* through HTTP from the same store state leaves the same store state and
\* gives the same success/failure outcome with the same returned data.
C19_FrontEndsAgree ==
    \A c \in SharedCommands :
        LET tcp == Serve(Data, TcpForm(c), now)
            http == Serve(Data, HttpForm(c), now)
        IN  /\ tcp.db = http.db
            /\ ReplyOutcome(tcp.reply) = ReplyOutcome(http.reply)

\* C20: MSet and MGet are not atomic as a whole. Each key is written or read
\* in a step of its own that leaves every other key alone, so other clients'
\* steps come in between; what MGet gets for a key is always the whole value
\* the store holds for it at that step, one that a single MSet wrote (wholly
\* old or wholly new), or nil. The interleaving in which an MGet sees one key
\* new and another old is C20_Witness.
C20_BulkPerKey ==
    [][\A t \in Tasks :
          /\ (bulk[t].name = "MSet" /\ bulk'[t].name = "MSet"
                 /\ bulk'[t] # bulk[t]) =>
                 \E k \in bulk[t].todo :
                     /\ bulk'[t].todo = bulk[t].todo \ {k}
                     /\ Data'[k].Data = bulk[t].kv[k]
                     /\ DOMAIN Data' = (DOMAIN Data) \cup {k}
                     /\ \A j \in (DOMAIN Data) \ {k} : Data'[j] = Data[j]
          /\ (bulk[t].name = "MGet" /\ bulk'[t].name = "MGet"
                 /\ bulk'[t] # bulk[t]) =>
                 LET i == Len(bulk'[t].results)
                     k == bulk[t].keys[i]
                     got == bulk'[t].results[i]
                 IN  /\ i = Len(bulk[t].results) + 1
                     /\ SubSeq(bulk'[t].results, 1, i - 1) = bulk[t].results
                     /\ Data' = Data
                     /\ IF k \in DOMAIN Data
                        THEN /\ got = StrData(Data[k].Data)
                             /\ Data[k].Data \in BulkValues
                        ELSE got = NilData]_vars

\* An MGet of k1, k2 that ran while an MSet was between its two writes: it
\* has k1 as the MSet wrote it and k2 as it was before, which is still what
\* the store holds because the MSet has not written k2 yet.
C20_Witness ==
    \E w \in Tasks, r \in Tasks :
        /\ bulk[w].name = "MSet"
        /\ bulk[w].todo = {"k2"}
        /\ bulk[r].name = "MGet"
        /\ bulk[r].keys = <<"k1", "k2">>
        /\ Len(bulk[r].results) = 2
        /\ bulk[r].results[1] = StrData(bulk[w].kv["k1"])
        /\ ~bulk[r].results[2].nil
        /\ bulk[r].results[2] # StrData(bulk[w].kv["k2"])
        /\ bulk[r].results[2] = StrData(Data["k2"].Data)

\* ------------------------------------------ claims on persistence --------
\* C21: constructing a persistent store loads the snapshot file once: with
\* no file the store starts empty and construction reports no error; with a
\* file that is not well-formed, construction reports an error to its caller
\* instead of handing back an empty, usable store.
C21_LoadAtConstruction ==
    [][(engine.phase = "new" /\ engine'.phase = "running") =>
           /\ file.state = "absent" =>
                  Data' = EmptyMap /\ ~engine'.ctorErr
           /\ file.state = "valid" =>
                  Data' = Unmarshal(file.doc) /\ ~engine'.ctorErr
           /\ file.state \notin {"absent", "valid"} => engine'.ctorErr]_vars

\* C22: with autosave running every tick triggers a Save, and Stop performs
\* a final Save: once Stop has returned (without error) the snapshot on disk
\* is well-formed and holds every Set and Delete that completed before Stop
\* was called. No Set or Delete runs here once Stop has been called, so the
\* store at that moment is the store now.
C22_StopSnapshot ==
    (engine.stop = "returned" /\ ~engine.saver["stop"].err) =>
        /\ file.state = "valid"
        /\ file.doc = MarshalIndent(Data).doc

\* The step in which the SaveToDisk of goroutine s returns an error.
SaveFailure(s) ==
    /\ engine.saver[s].pc # "idle"
    /\ engine'.saver[s].pc = "idle"
    /\ engine'.saver[s].err

\* The step is a caller's Get, Set or Delete on the engine.
EngineStep(name) ==
    /\ engine' = engine
    /\ file' = file
    /\ request'.via = "engine"
    /\ request'.name = name

\* C23: a Save that fails (serialization or disk write) is not fatal. The
\* failing step leaves the map as it is and releases the lock, the autosave
\* routine is back at its select (a later tick saves again), and after a
\* failure Set, Delete and Get still do their work on the map.
C23_SaveFailureNotFatal ==
    [][/\ \A s \in Savers :
              SaveFailure(s) =>
                  /\ Data' = Data
                  /\ s \notin mu'.readers
                  /\ (s = "auto" /\ engine.routine = "save") =>
                         engine'.routine = "select"
       /\ engine.failed =>
              LET k == request'.args[1]
              IN  /\ EngineStep("Set") =>
                         /\ response'.code = "ok"
                         /\ k \in DOMAIN Data'
                         /\ Data'[k].Data = request'.args[2]
                         /\ \A j \in DOMAIN Data \ {k} : Data'[j] = Data[j]
                  /\ EngineStep("Delete") =>
                         /\ response'.code = (IF k \in DOMAIN Data THEN "ok"
                                              ELSE "missing")
                         /\ DOMAIN Data' = DOMAIN Data \ {k}
                  /\ EngineStep("Get") =>
                         /\ Data' = Data
                         /\ IF k \in DOMAIN Data
                            THEN response' = Reply("ok", StrData(Data[k].Data), "")
                            ELSE response'.code = "missing"]_vars

\* C23 witness: an autosave has failed, a Set has been served since on a map
\* the failure left in place, and a later tick's Save has got as far as
\* writing the file.
C23_Witness ==
    /\ engine.failed
    /\ engine.stop = "none"
    /\ engine.saver["auto"].pc = "truncated"
    /\ request.name = "Set"
    /\ response.code = "ok"
    /\ DOMAIN Data = KeySet

\* C24: for any contents of the store, SaveToDisk followed by a load of the
\* file into a fresh engine gives the same keys, each with the same type,
\* payload and deadline.
C24_PersistenceRoundTrip ==
    LET saved == MarshalIndent(Data)
        load == loadFromDisk(FileOf("valid", saved.doc))
    IN  (engine.phase = "running" /\ saved.ok) =>
            /\ ~load.err
            /\ DOMAIN load.data = DOMAIN Data
            /\ \A k \in DOMAIN Data :
                   /\ load.data[k].Type = Data[k].Type
                   /\ load.data[k].Data = Data[k].Data
                   /\ load.data[k].TTL = Data[k].TTL

\* C30: SaveToDisk holds the store lock only while it copies the map: once
\* the copy is serialised and while the file is being written the lock has
\* been released, so no Set or Delete waits for a disk write.
C30_SaveWritesUnlocked ==
    \A s \in Savers :
        engine.saver[s].pc \in {"marshalled", "truncated"} =>
            s \notin mu.readers

\* ------------------------------------------ claims on the lock, again ----
\* C29: under any interleaving of client tasks, the sweep and lazy eviction,
\* every modification of the store's key map, the deletion Get performs on
\* an expired key included, is made by the task that holds the exclusive
\* write lock, so no modification is concurrent with a reader or another
\* writer and the runtime never meets two accesses of the map at once.
C29_MapWritesExclusive ==
    [][/\ Data' # Data => \E t \in Tasks :
                              /\ mu.writer = t
                              /\ mu.readers = {}
                              /\ pc[t] = "held"
                              /\ pc'[t] = "done"
       /\ ~crashed']_vars

\* ------------------------------------------ claims on Keys ---------------
\* C28: Keys(p) for a pattern p other than "*" returns at most one element,
\* and only the key equal to p (it returns that key exactly when the store
\* holds it): no glob or prefix matching takes place, Keys("a*") does not
\* return the key "abc".
C28_KeysExactMatch ==
    [][(request'.name = "Keys" /\ request'.args[1] # "*") =>
           LET p == request'.args[1]
           IN  /\ Cardinality(response'.keys) <= 1
               /\ response'.keys \subseteq {p}
               /\ response'.keys = {p} <=> p \in DOMAIN Data]_vars

\* C28 witness: the store holds "abc" and "ab" but no key "a*", and
\* Keys("a*") has returned nothing.
C28_Witness ==
    /\ request.name = "Keys"
    /\ request.args = <<"a*">>
    /\ DOMAIN Data = {"abc", "ab"}
    /\ response.keys = {}

\* ------------------------------------------ claims on the HTTP API -------
\* C25: every HTTP endpoint that reads a JSON body (string set, append,
\* incr, ttl set, bulk get, bulk set) answers a body that is not JSON with
\* status 400 and leaves the store unchanged.
C25_MalformedBody400 ==
    [][(Serving /\ request'.via = "http" /\ request'.name \in BodyRoutes
           /\ request'.bad) =>
           /\ response'.code = "400"
           /\ Data' = Data]_vars

\* C26: POST (or PUT) /api/v1/keys/{key} sets the value of the key: after
\* one that succeeded, GET on the same path returns the value posted.
C26_PostSetsValue ==
    \A k \in CmdKeys, v \in TcpValues, method \in {"keys.post", "keys.put"} :
        LET posted == HttpServe(Data, Request("http", method, <<k, v>>, <<>>, FALSE),
                                now)
            got == HttpServe(posted.db, Request("http", "keys.get", <<k>>, <<>>, FALSE),
                             now)
        IN  posted.reply.code = "200" => got.reply = Reply("200", StrData(v), "")

\* the markers and statuses a front end answers with
ReplyCodes == {"", "+", "-ERR", ":", "$", "$-1", "*", "200", "400", "404", "500"}

\* C27: no store or command operation raises a fault: in every state
\* reachable through TCP and HTTP commands every value of declared type
\* STRING carries a string payload, so the type assertions of the command
\* and TCP layers succeed, and every answer is a reply of the protocol.
C27_StringPayloads ==
    /\ \A k \in DOMAIN Data :
           Data[k].Type = "STRING" => IsGoString(Data[k].Data)
    /\ response.code \in ReplyCodes
    /\ ~crashed

\* C27 witness: a counter written by SET and rewritten by INCR or DECR has
\* been read back by GET, whose reply asserts the payload to be a string.
C27_Witness ==
    /\ request.via = "tcp"
    /\ request.name = "GET"
    /\ response.code = "$"
    /\ \E k \in DOMAIN Data :
           /\ request.args = <<k>>
           /\ Data[k].Type = "STRING"
           /\ response.data = StrData(Data[k].Data)
           /\ Data[k].Data = <<"1", "1">>

\* C32: Exists, Keys, Size and GetTTL never modify the store, so an Exists on
\* a key whose deadline has passed leaves the key where it is; the only
\* steps that remove such a key without being asked to rewrite it are Get
\* and the sweep; and a Get of a key that is present and not past its
\* deadline leaves the store unchanged.
C32_ReadsLeaveStore ==
    [][/\ \A t \in Tasks :
            /\ \A n \in {"Exists", "Keys", "Size", "GetTTL"} :
                   BodyStep(t, n) => Data' = Data
            /\ (/\ BodyStep(t, "Get")
                /\ op[t].key \in DOMAIN Data
                /\ ~PastDeadline(Data[op[t].key], now)) => Data' = Data
       /\ \A k \in DOMAIN Data :
            (PastDeadline(Data[k], now) /\ k \notin DOMAIN Data') =>
                \/ Rewrites(k)
                \/ \E t \in Tasks : BodyStep(t, "Get") /\ op[t].key = k
                \/ \E t \in Tasks : BodyStep(t, "CleanupExpired")
      ]_vars

\* C32 witness: an Exists has run on a key whose deadline has passed, has
\* answered true, and the key is still in the store.
C32_Witness ==
    \E t \in Tasks :
        /\ pc[t] = "done" /\ op[t].name = "Exists" /\ ret[t].ok
        /\ op[t].key \in DOMAIN Data
        /\ PastDeadline(Data[op[t].key], now)

\* C33 (as claimed): Get and GetTTL agree on whether a key is live: at every
\* instant and for every key, Get reports found=false exactly when GetTTL
\* returns -2, also at the deadline itself and for keys given zero or
\* negative seconds.
C33_GetAndGetTTLAgree ==
    \A k \in KeySet :
        ~GetResult(Data, k, now).ok <=> GetTTLResult(Data, k, now) = -2

\* C34 (as claimed): a key whose deadline has passed is made visible again
\* by nothing but a new Set: a SetTTL on such a key that is not evicted yet
\* returns false, and after every step other than a Set on the key a Get of
\* it would still report found=false.
C34_ExpiredStaysAbsent ==
    [][\A k \in DOMAIN Data :
         PastDeadline(Data[k], now) =>
           /\ \A t \in Tasks :
                BodyStep(t, "SetTTL") /\ op[t].key = k => ~ret'[t].ok
           /\ (\A t \in Tasks : ~(BodyStep(t, "Set") /\ op[t].key = k)) =>
                ~GetResult(Data', k, now').ok
      ]_vars

\* C36: Append and IncrBy/Incr/Decr replace the stored value with a fresh
\* one that has no expiration: after either succeeds on key k, whatever
\* deadline was pending on k, the key has no deadline, GetTTL(k) returns -1
\* and Get finds k at every later time; and a key without deadline keeps
\* being so until a SET, EXPIRE or DEL (or a Set through the Go API)
\* rewrites it.
C36_RewriteDropsDeadline ==
    [][/\ (/\ Serving
           /\ IsIncr(request') \/ IsAppend(request')
           /\ Succeeded(response')) =>
              LET k == request'.args[1]
              IN  /\ k \in DOMAIN Data'
                  /\ Data'[k].TTL = 0
                  /\ \A t \in now .. MaxTime + 1 :
                         /\ GetTTLResult(Data', k, t) = -1
                         /\ GetResult(Data', k, t).ok
       /\ \A k \in DOMAIN Data :
              (/\ Data[k].TTL = 0
               /\ request'.name \notin {"SET", "EXPIRE", "DEL", "string.set",
                                        "db.Set"}) =>
                  k \in DOMAIN Data' /\ Data'[k].TTL = 0
      ]_vars

\* C36 witness: an APPEND has succeeded on a key that was present (its
\* value was built by Append and replaced an older one), a second after the
\* store was last written at the earliest, and the key has no deadline.
C36_Witness ==
    /\ IsAppend(request) /\ Succeeded(response)
    /\ now > StartTime
    /\ request.args[1] \in DOMAIN Data
    /\ Data[request.args[1]].CreatedAt = ZeroTime
    /\ Data[request.args[1]].UpdatedAt = now
    /\ Len(Data[request.args[1]].Data) > Len(request.args[2])
    /\ GetTTLResult(Data, request.args[1], now) = -1

\* C40: IncrBy never fails on overflow: on a key holding a string that
\* parses as the int64 c, IncrBy with delta d succeeds and stores the
\* decimal string of c + d wrapped around into the int64 range, which
\* parses back as that int64, so that an IncrBy that follows on the key,
\* whatever its delta, succeeds as well.
C40_IncrByWraps ==
    [][(Serving /\ IsIncr(request')) =>
          LET k == request'.args[1]
              d == IncrDelta(request')
          IN  (/\ Live(Data, k, now)
               /\ Data[k].Type = "STRING"
               /\ ParseInt(Data[k].Data).ok) =>
                  LET sum == ParseInt(Data[k].Data).val + d
                  IN  /\ Succeeded(response')
                      /\ \E w \in Int64Min .. Int64Max :
                             /\ (w - sum) % (2 ^ IntBits) = 0
                             /\ IsDecimalOf(Data'[k].Data, w)
                             /\ ParseInt(Data'[k].Data) = [ok |-> TRUE, val |-> w]
                             /\ response'.data = IntData(w)
                      /\ \A e \in Int64Min .. Int64Max :
                             ScIncrBy(Data', k, e, now).resp.Success]_vars

\* C40 witness: an IncrBy(k, -2) whose sum fell below the smallest int64
\* has succeeded and left the key holding the wrapped, positive sum.
C40_Witness ==
    /\ request.name = "IncrBy"
    /\ request.nums = <<-2>>
    /\ Succeeded(response)
    /\ response.data.num = Int64Max - 1
    /\ ParseInt(Data[request.args[1]].Data) = [ok |-> TRUE, val |-> Int64Max - 1]

\* C35 (as claimed): increments are not lost under concurrency: when the
\* tasks have concurrently called Incr on the same key and all have
\* returned success, the key holds the original value plus the number of
\* tasks (in int64) and the values returned are pairwise distinct.
C35_NoLostIncrement ==
    (\A t \in Tasks : pc[t] = "done" /\ op[t].name = "Incr" /\ ret[t].ok) =>
        /\ ParseInt(Data[IncrKey].Data) =
               [ok |-> TRUE, val |-> WrapInt64(IncrOriginal + Cardinality(Tasks))]
        /\ \A t \in Tasks, u \in Tasks : t # u => ret[t].num # ret[u].num

\* C31: under fair scheduling, with the autosave routine and the expiration
\* sweep running again and again and contending for the same lock, every
\* client mutation (Set, Delete, SetTTL, FlushAll) that asks for the lock
\* is eventually granted it, runs and returns.
C31_MutationsNotStarved ==
    \A t \in Tasks :
        \A n \in {"Set", "Delete", "SetTTL", "FlushAll"} :
            (pc[t] = "waiting" /\ op[t].name = n) ~> (pc[t] = "idle")

\* C31 witness: a client has run its mutation while the other client and
\* the sweep are queued for the lock behind it and a snapshot is on disk.
C31_Witness ==
    \E t \in Tasks :
        /\ pc[t] = "done" /\ mu.writer = t
        /\ \E u \in Tasks \ {t} : pc[u] = "waiting"
        /\ pc[Sweeper] = "waiting"
        /\ file.state = "valid"

\* C38 (as claimed): MemoryEngine.Stop eventually returns in every
\* configuration of the engine (autoSave on or off, persistencePath empty
\* or not) and at every call: it never blocks forever sending on the stop
\* channel.
C38_StopReturns ==
    (engine.stop \in {"send", "save"}) ~> (engine.stop = "returned")

\* C37 (as claimed): every call of DiskEngine.Set, of DiskEngine.Delete on
\* an existing key, of DiskEngine.Flush and of PersistentStore.Set
\* eventually returns: the persist or Save it invokes while it still holds
\* the exclusive lock gets the read lock it asks for.
C37_PersistReturns ==
    \A t \in Tasks :
        (pc[t] = "nested" /\ op[t].name \in PersistCalls) ~> (pc[t] = "idle")

\* C39 (as claimed): MemoryEngine.GetStats eventually returns under every
\* interleaving with concurrent writers: its second acquisition of the read
\* lock, in GetMemoryUsage, cannot deadlock with a Set that starts waiting
\* for the write lock between the two acquisitions.
C39_GetStatsReturns ==
    \A t \in Tasks :
        (pc[t] = "held" /\ op[t].name = "GetStats") ~> (pc[t] = "idle")
====
